---- MODULE Spec2Model ----
(***************************************************************************)
(* 3C research tool: response normalisation (researcher.py), the research  *)
(* orchestrator with its bounded retry (researcher.py), and the slide      *)
(* layout engine (pptx_builder.py).                                        *)
(*                                                                         *)
(* Texts are sequences of tokens: a token is a fence marker, a brace, a    *)
(* member of a JSON object, a complete non-object JSON value, a newline or *)
(* a word of free text.  JSON values are tagged records.  Lengths on the   *)
(* slides are in hundredths of an inch.                                    *)
(***************************************************************************)
EXTENDS Integers, Sequences, FiniteSets, TLC

VARIABLES
    pc, phase, attempt, calls, labels, sleeps, all_sources,
    company_info, competitor_info, customer_info, result, error,
    content_list, extracted,
    raw_text, normalized,
    coord_in, coord_out,
    deck_in, deck_pc, slides, placed,
    map_in, map_out,
    app_pc, run_id, session, session_before, archive,
    cb_mode, cb_script, cb_runs

vars == <<pc, phase, attempt, calls, labels, sleeps, all_sources,
          company_info, competitor_info, customer_info, result, error,
          content_list, extracted, raw_text, normalized,
          coord_in, coord_out, deck_in, deck_pc, slides, placed,
          map_in, map_out, app_pc, run_id, session, session_before, archive,
          cb_mode, cb_script, cb_runs>>

runVars == <<pc, phase, attempt, calls, labels, sleeps, all_sources,
             company_info, competitor_info, customer_info, result, error>>

extractVars == <<content_list, extracted>>

normVars == <<raw_text, normalized>>

coordVars == <<coord_in, coord_out>>

deckVars == <<deck_in, deck_pc, slides, placed>>

mapVars == <<map_in, map_out>>

appVars == <<app_pc, run_id, session, session_before, archive>>

cbVars == <<cb_mode, cb_script, cb_runs>>

(***************************************************************************)
(* Bounds of the model.                                                    *)
(***************************************************************************)
MaxBlocks == 2

MaxEntries == 2

MaxTextLen == 4

MaxQuestions == 37

MaxSources == 22

MaxListLen == 2

MaxPoints == 3

MaxRuns == 3

MaxSegments == 3

MaxMembers == 2

MaxLabels == 5

(***************************************************************************)
(* Generic helpers.                                                        *)
(***************************************************************************)
None == [t |-> "null"]

SeqsUpTo(S, n) == UNION {[1..k -> S] : k \in 0..n}

RECURSIVE Concat(_)
Concat(ss) == IF ss = <<>> THEN <<>> ELSE Head(ss) \o Concat(Tail(ss))

Range(s) == {s[i] : i \in DOMAIN s}

Min(a, b) == IF a < b THEN a ELSE b

(***************************************************************************)
(* JSON values as json.loads returns them.                                 *)
(***************************************************************************)
JNum(n) == [t |-> "num", v |-> n]

JBool(b) == [t |-> "bool", v |-> b]

JStr(s) == [t |-> "str", v |-> s]

JList(s) == [t |-> "list", v |-> s]

JDict(f) == [t |-> "dict", v |-> f]

\* An integer literal too large for a double: json.loads yields a Python int.
JBigInt == [t |-> "bigint"]

EmptyDict == JDict(<<>>)

\* Python truth value of a decoded JSON value (`if not data`).
Truthy(val) ==
    CASE val.t = "null" -> FALSE
      [] val.t = "bool" -> val.v
      [] val.t = "num" -> val.v # 0
      [] val.t = "bigint" -> TRUE
      [] val.t = "str" -> val.v # ""
      [] val.t = "list" -> val.v # <<>>
      [] val.t = "dict" -> DOMAIN val.v # {}

\* dict.get(key, default)
DictGet(d, key, default) == IF key \in DOMAIN d.v THEN d.v[key] ELSE default

\* str(val) for a value that is neither None nor a str.
PyStr(val) ==
    CASE val.t = "num" -> ToString(val.v)
      [] val.t = "bool" -> IF val.v THEN "True" ELSE "False"
      [] val.t = "bigint" -> "1e400"
      [] val.t = "list" -> IF val.v = <<>> THEN "[]" ELSE "[...]"
      [] val.t = "dict" -> IF DOMAIN val.v = {} THEN "{}" ELSE "{...}"

_safe_str(val) ==
    IF val.t = "null" THEN ""
    ELSE IF val.t = "str" THEN val.v
    ELSE PyStr(val)

(***************************************************************************)
(* _extract_text_and_sources.  A block is a record                        *)
(*   [type, text, citations, content_kind, content]                        *)
(* where text is a token sequence, citations a list of [type, url, title]  *)
(* (None and [] are both skipped by the code and are both <<>> here) and   *)
(* content the list of result items when content_kind = "list".            *)
(***************************************************************************)
RECURSIVE CollectEntries(_)
\* the url/title pairs one list of citations or result items contributes
CollectEntries(items) ==
    IF items = <<>> THEN <<>>
    ELSE LET it == Head(items)
         IN  (IF it.type = "web_search_tool_result_error" \/ it.url = ""
              THEN <<>>
              ELSE <<[url |-> it.url, title |-> it.title]>>)
             \o CollectEntries(Tail(items))

\* citations carry no error type: every citation with a url counts
CollectCitations(cites) ==
    CollectEntries([i \in DOMAIN cites |->
                      [type |-> "citation", url |-> cites[i].url, title |-> cites[i].title]])

BlockSources(block) ==
    CASE block.type = "text" -> CollectCitations(block.citations)
      [] block.type = "web_search_tool_result" ->
            IF block.content_kind = "list" THEN CollectEntries(block.content) ELSE <<>>
      [] OTHER -> <<>>

BlockText(block) ==
    IF block.type = "text" /\ block.text # <<>> THEN <<block.text>> ELSE <<>>

RECURSIVE DedupFrom(_, _)
DedupFrom(srcs, seen_urls) ==
    IF srcs = <<>> THEN <<>>
    ELSE IF Head(srcs).url \in seen_urls
         THEN DedupFrom(Tail(srcs), seen_urls)
         ELSE <<Head(srcs)>> \o DedupFrom(Tail(srcs), seen_urls \cup {Head(srcs).url})

DedupLastWins(srcs) ==
    LET n == Len(srcs)
        keep == {i \in 1..n : \A j \in (i+1)..n : srcs[j].url # srcs[i].url}
        RECURSIVE Pick(_)
        Pick(i) == IF i > n THEN <<>>
                   ELSE (IF i \in keep THEN <<srcs[i]>> ELSE <<>>) \o Pick(i + 1)
    IN  Pick(1)

\* the seen_urls / unique_sources loop
DedupSources(srcs) == DedupFrom(srcs, {})

RECURSIVE JoinLines(_)
\* "\n".join(text_parts)
JoinLines(parts) ==
    IF parts = <<>> THEN <<>>
    ELSE IF Len(parts) = 1 THEN parts[1]
    ELSE parts[1] \o <<"\n">> \o JoinLines(Tail(parts))

_extract_text_and_sources(response) ==
    IF response.content_kind # "list"
    THEN [text |-> <<>>, sources |-> <<>>]
    ELSE LET blocks == response.content
             text_parts == Concat([i \in DOMAIN blocks |-> BlockText(blocks[i])])
             sources == Concat([i \in DOMAIN blocks |-> BlockSources(blocks[i])])
         IN  [text |-> JoinLines(text_parts), sources |-> DedupSources(sources)]

(***************************************************************************)
(* _parse_json_from_text on token sequences.  "fence_json" is the marker    *)
(* of a block tagged as JSON, "fence" the bare three-backquote marker.      *)
(***************************************************************************)
FENCE_JSON == "fence_json"

FENCE == "fence"

\* tokens standing for one member `"key": value` of a JSON object
MemberTable ==
    [m_name |-> [key |-> "name", val |-> JNum(7)],
     m_findings |-> [key |-> "key_findings", val |-> JStr("f1")],
     m_findings_list |-> [key |-> "key_findings", val |-> JList(<<JStr("f1"), JNum(2)>>)],
     m_timeline_scalar |-> [key |-> "timeline", val |-> JStr("1999")],
     m_segments_scalar |-> [key |-> "target_segments", val |-> JStr("teens")],
     m_timeline_null |-> [key |-> "timeline", val |-> None],
     m_timeline_dict |-> [key |-> "timeline", val |-> JDict([year |-> JStr("1999")])],
     m_timeline_list |-> [key |-> "timeline",
                          val |-> JList(<<JDict([year |-> JStr("1999")])>>)],
     m_news_scalar |-> [key |-> "recent_news", val |-> JStr("s")],
     m_news_null |-> [key |-> "recent_news", val |-> None],
     m_news_dict |-> [key |-> "recent_news", val |-> JDict([title |-> JStr("s")])],
     m_news_list |-> [key |-> "recent_news", val |-> JList(<<JDict([title |-> JStr("s")])>>)],
     m_sns_scalar |-> [key |-> "sns_analysis", val |-> JNum(7)],
     m_sns_null |-> [key |-> "sns_analysis", val |-> None],
     m_sns_dict |-> [key |-> "sns_analysis", val |-> JDict([platform |-> JStr("s")])],
     m_sns_list |-> [key |-> "sns_analysis",
                     val |-> JList(<<JDict([platform |-> JStr("s"),
                                            key_topics |-> JList(<<JStr("f1")>>)])>>)],
     m_sns_topics_scalar |-> [key |-> "sns_analysis",
                              val |-> JList(<<JDict([key_topics |-> JStr("f1")])>>)],
     m_sns_topics_null |-> [key |-> "sns_analysis",
                            val |-> JList(<<JDict([key_topics |-> None])>>)],
     m_sns_topics_dict |-> [key |-> "sns_analysis",
                            val |-> JList(<<JDict([key_topics |-> EmptyDict])>>)],
     m_direct_scalar |-> [key |-> "direct_competitors", val |-> JStr("s")],
     m_direct_null |-> [key |-> "direct_competitors", val |-> None],
     m_direct_dict |-> [key |-> "direct_competitors", val |-> JDict([name |-> JStr("s")])],
     m_indirect_scalar |-> [key |-> "indirect_competitors", val |-> JNum(7)],
     m_indirect_null |-> [key |-> "indirect_competitors", val |-> None],
     m_indirect_dict |-> [key |-> "indirect_competitors", val |-> JDict([name |-> JStr("s")])],
     m_indirect_list |-> [key |-> "indirect_competitors",
                          val |-> JList(<<JDict([name |-> JStr("s")])>>)],
     m_segments_null |-> [key |-> "target_segments", val |-> None],
     m_segments_dict |-> [key |-> "target_segments", val |-> EmptyDict],
     m_segments_list |-> [key |-> "target_segments", val |-> JList(<<JStr("teens")>>)],
     m_cases_scalar |-> [key |-> "similar_cases", val |-> JStr("s")],
     m_cases_null |-> [key |-> "similar_cases", val |-> None],
     m_cases_dict |-> [key |-> "similar_cases", val |-> JDict([company |-> JStr("s")])],
     m_cases_list |-> [key |-> "similar_cases",
                       val |-> JList(<<JDict([company |-> JStr("s")])>>)],
     m_tx |-> [key |-> "target_company_position_x", val |-> JNum(6)],
     m_ty |-> [key |-> "target_company_position_y", val |-> JStr("abc")],
     m_direct |-> [key |-> "direct_competitors",
                   val |-> JList(<<JDict([name |-> JStr("Beta"), position_x |-> JNum(7),
                                          position_y |-> JStr("abc")])>>)]]

MemberTokens == DOMAIN MemberTable

\* tokens standing for one complete JSON value that is not an object
ValueTable ==
    [v_array |-> JList(<<JNum(1), JNum(2)>>),
     v_empty_array |-> JList(<<>>),
     v_number |-> JNum(5),
     v_zero |-> JNum(0),
     v_null |-> None,
     v_string |-> JStr("s"),
     v_true |-> JBool(TRUE)]

ValueTokens == DOMAIN ValueTable

\* the tokens that contain the three-backtick substring
FenceTokens == {FENCE_JSON, FENCE}

IsSpace(tok) == tok = "\n"

\* str.index / str.find of a token of `toks` at or after position `from`;
\* 0 when absent
IndexFrom(text, toks, from) ==
    LET hits == {i \in from..Len(text) : text[i] \in toks}
    IN  IF hits = {} THEN 0 ELSE CHOOSE i \in hits : \A j \in hits : i <= j

\* str.rfind; 0 when absent
RIndex(text, toks) ==
    LET hits == {i \in 1..Len(text) : text[i] \in toks}
    IN  IF hits = {} THEN 0 ELSE CHOOSE i \in hits : \A j \in hits : i >= j

RECURSIVE LStrip(_)
LStrip(text) ==
    IF text # <<>> /\ IsSpace(Head(text)) THEN LStrip(Tail(text)) ELSE text

RECURSIVE RStrip(_)
RStrip(text) ==
    IF text # <<>> /\ IsSpace(text[Len(text)])
    THEN RStrip(SubSeq(text, 1, Len(text) - 1)) ELSE text

\* str.strip()
Strip(text) == RStrip(LStrip(text))

RECURSIVE DictOfMembers(_, _)
\* the object a member list decodes to; a repeated key keeps its last value
DictOfMembers(members, acc) ==
    IF members = <<>> THEN acc
    ELSE LET m == MemberTable[Head(members)]
         IN  DictOfMembers(Tail(members),
                 [k \in DOMAIN acc \cup {m.key} |-> IF k = m.key THEN m.val ELSE acc[k]])

\* json.loads: [ok |-> TRUE, val |-> value] or [ok |-> FALSE] (JSONDecodeError)
JsonLoads(json_str) ==
    LET toks == SelectSeq(json_str, LAMBDA tk : ~IsSpace(tk))
        n == Len(toks)
    IN  IF n = 1 /\ toks[1] \in ValueTokens
        THEN [ok |-> TRUE, val |-> ValueTable[toks[1]]]
        ELSE IF n >= 2 /\ toks[1] = "{" /\ toks[n] = "}"
                /\ \A i \in 2..(n - 1) : toks[i] \in MemberTokens
        THEN [ok |-> TRUE, val |-> JDict(DictOfMembers(SubSeq(toks, 2, n - 1), <<>>))]
        ELSE [ok |-> FALSE]

\* the text between the opening fence at `open` and the next fence, stripped;
\* <<>> when the fence is not closed (ValueError)
FencedBlock(text, open) ==
    LET end == IndexFrom(text, FenceTokens, open + 1)
    IN  IF end = 0 THEN <<>> ELSE Strip(SubSeq(text, open + 1, end - 1))

JsonCandidateFirstFence(text) ==
    IF \E i \in DOMAIN text : text[i] \in FenceTokens
    THEN [found |-> TRUE,
          str |-> FencedBlock(text, IndexFrom(text, FenceTokens, 1))]
    ELSE LET brace_start == IndexFrom(text, {"{"}, 1)
             brace_end == RIndex(text, {"}"})
         IN  IF brace_start >= 1 /\ brace_end > brace_start
             THEN [found |-> TRUE, str |-> SubSeq(text, brace_start, brace_end)]
             ELSE [found |-> FALSE, str |-> <<>>]

\* the candidate substring: [found |-> FALSE] stands for the early `return {}`
JsonCandidate(text) ==
    IF \E i \in DOMAIN text : text[i] = FENCE_JSON
    THEN [found |-> TRUE,
          str |-> FencedBlock(text, IndexFrom(text, {FENCE_JSON}, 1))]
    ELSE IF \E i \in DOMAIN text : text[i] = FENCE
    THEN [found |-> TRUE,
          str |-> FencedBlock(text, IndexFrom(text, {FENCE}, 1))]
    ELSE LET brace_start == IndexFrom(text, {"{"}, 1)
             brace_end == RIndex(text, {"}"})
         IN  IF brace_start >= 1 /\ brace_end > brace_start
             THEN [found |-> TRUE, str |-> SubSeq(text, brace_start, brace_end)]
             ELSE [found |-> FALSE, str |-> <<>>]

\* the mutated parser: when the fenced candidate is missing or does not
\* load, the text from the first opening to the last closing brace is tried
_parse_json_with_fallback(text) ==
    LET cand == JsonCandidate(text)
        loaded == JsonLoads(cand.str)
        brace_start == IndexFrom(text, {"{"}, 1)
        brace_end == RIndex(text, {"}"})
        braces == IF brace_start >= 1 /\ brace_end > brace_start
                  THEN JsonLoads(SubSeq(text, brace_start, brace_end))
                  ELSE [ok |-> FALSE]
    IN  IF cand.found /\ cand.str # <<>> /\ loaded.ok THEN loaded.val
        ELSE IF braces.ok THEN braces.val
        ELSE EmptyDict

_parse_json_from_text(text) ==
    LET cand == JsonCandidate(text)
    IN  IF ~cand.found \/ cand.str = <<>> THEN EmptyDict
        ELSE LET loaded == JsonLoads(cand.str)
             IN  IF loaded.ok THEN loaded.val ELSE EmptyDict

(***************************************************************************)
(* Tolerant construction of the typed records.  A constructor returns      *)
(* [exc |-> "", val |-> record], or [exc |-> name] when the Python code    *)
(* lets an exception escape.                                               *)
(***************************************************************************)
Ok(val) == [exc |-> "", val |-> val]

Raise(name) == [exc |-> name]

\* strings float() accepts, with their value
NumericStrings == [s7 \in {"7", "12"} |-> IF s7 = "7" THEN 7 ELSE 12]

\* float(val): numbers are modelled as integers, 5 standing for 5.0
PyFloat(val) ==
    CASE val.t = "num" -> Ok(val.v)
      [] val.t = "bool" -> Ok(IF val.v THEN 1 ELSE 0)
      [] val.t = "str" -> IF val.v \in DOMAIN NumericStrings
                          THEN Ok(NumericStrings[val.v]) ELSE Raise("ValueError")
      [] val.t = "bigint" -> Raise("OverflowError")
      [] OTHER -> Raise("TypeError")

DEFAULT_POSITION_zero == 1 - 1

DEFAULT_POSITION == 5

\* try: float(d.get(key, 5))  except (ValueError, TypeError): 5.0
Coordinate(d, key) ==
    LET parsed == PyFloat(DictGet(d, key, JNum(DEFAULT_POSITION)))
    IN  IF parsed.exc \in {"ValueError", "TypeError"} THEN Ok(DEFAULT_POSITION) ELSE parsed

\* `_safe_to_dict(e) if not isinstance(e, dict) else e`: a decoded JSON value
\* that is not an object has no __dict__
AsDict(e) == IF e.t = "dict" THEN e ELSE EmptyDict

GetStr(d, key) == _safe_str(DictGet(d, key, JStr("")))

\* `x = data.get(key, []); if not isinstance(x, list): x = []`
GetList(d, key) ==
    LET raw == DictGet(d, key, JList(<<>>))
    IN  IF raw.t = "list" THEN raw.v ELSE <<>>

\* `if not isinstance(x, list): x = [_safe_str(x)]`, then _safe_str of each
GetStrList(d, key) ==
    LET raw == DictGet(d, key, JList(<<>>))
        lst == IF raw.t = "list" THEN raw.v ELSE <<JStr(_safe_str(raw))>>
    IN  [i \in DOMAIN lst |-> _safe_str(lst[i])]

_make_timeline_event(e) ==
    [year |-> GetStr(AsDict(e), "year"), description |-> GetStr(AsDict(e), "description")]

_make_news_item(n) ==
    [title |-> GetStr(AsDict(n), "title"), date |-> GetStr(AsDict(n), "date"),
     summary |-> GetStr(AsDict(n), "summary"), url |-> GetStr(AsDict(n), "url")]

_make_sns_info(s) ==
    [platform |-> GetStr(AsDict(s), "platform"), summary |-> GetStr(AsDict(s), "summary"),
     tone |-> GetStr(AsDict(s), "tone"), key_topics |-> GetStrList(AsDict(s), "key_topics")]

_make_competitor(c) ==
    LET d == AsDict(c)
        pos_x == Coordinate(d, "position_x")
        pos_y == Coordinate(d, "position_y")
    IN  IF pos_x.exc # "" THEN Raise(pos_x.exc)
        ELSE IF pos_y.exc # "" THEN Raise(pos_y.exc)
        ELSE Ok([name |-> GetStr(d, "name"), description |-> GetStr(d, "description"),
                 strengths |-> GetStr(d, "strengths"), weaknesses |-> GetStr(d, "weaknesses"),
                 differentiation |-> GetStr(d, "differentiation"),
                 position_x |-> pos_x.val, position_y |-> pos_y.val])

_make_similar_case(c) ==
    [company |-> GetStr(AsDict(c), "company"), industry |-> GetStr(AsDict(c), "industry"),
     description |-> GetStr(AsDict(c), "description"), relevance |-> GetStr(AsDict(c), "relevance")]

\* [_make_competitor(c) for c in raw]: the first exception escapes
MakeCompetitors(raw) ==
    LET made == [i \in DOMAIN raw |-> _make_competitor(raw[i])]
        bad == {i \in DOMAIN raw : made[i].exc # ""}
    IN  IF bad # {} THEN Raise(made[CHOOSE i \in bad : \A j \in bad : i <= j].exc)
        ELSE Ok([i \in DOMAIN raw |-> made[i].val])

\* dataclass defaults (models.py)
CompanyInfo(name) ==
    [name |-> name, official_url |-> "", mission_vision |-> "", business_overview |-> "",
     products_services |-> "", timeline |-> <<>>, recent_news |-> <<>>, ir_summary |-> "",
     sns_analysis |-> <<>>, brand_momentum |-> ""]

NO_POSITION == <<>>

\* CompetitorInfo(); target_position is the _target_position attribute,
\* NO_POSITION while the attribute is not set
CompetitorInfo ==
    [direct_competitors |-> <<>>, indirect_competitors |-> <<>>, industry_position |-> "",
     positioning_axis_x |-> "", positioning_axis_y |-> "", target_position |-> NO_POSITION]

CustomerInfo ==
    [market_size |-> "", market_trend |-> "", target_segments |-> <<>>,
     target_description |-> "", similar_cases |-> <<>>]

\* research_company after _search_and_analyze: data is the parsed text
CompanyOf(data, company_name) ==
    IF ~Truthy(data) THEN Ok(CompanyInfo(company_name))
    ELSE IF data.t # "dict" THEN Raise("AttributeError")
    ELSE Ok([name |-> _safe_str(DictGet(data, "name", JStr(company_name))),
             official_url |-> GetStr(data, "official_url"),
             mission_vision |-> GetStr(data, "mission_vision"),
             business_overview |-> GetStr(data, "business_overview"),
             products_services |-> GetStr(data, "products_services"),
             timeline |-> [i \in DOMAIN GetList(data, "timeline") |->
                              _make_timeline_event(GetList(data, "timeline")[i])],
             recent_news |-> [i \in DOMAIN GetList(data, "recent_news") |->
                                 _make_news_item(GetList(data, "recent_news")[i])],
             ir_summary |-> GetStr(data, "ir_summary"),
             sns_analysis |-> [i \in DOMAIN GetList(data, "sns_analysis") |->
                                  _make_sns_info(GetList(data, "sns_analysis")[i])],
             brand_momentum |-> GetStr(data, "brand_momentum")])

\* research_competitor after _search_and_analyze
CompetitorOf(data) ==
    IF ~Truthy(data) THEN Ok(CompetitorInfo)
    ELSE IF data.t # "dict" THEN Raise("AttributeError")
    ELSE LET direct == MakeCompetitors(GetList(data, "direct_competitors"))
             indirect == MakeCompetitors(GetList(data, "indirect_competitors"))
             tx == Coordinate(data, "target_company_position_x")
             ty == Coordinate(data, "target_company_position_y")
         IN  IF direct.exc # "" THEN Raise(direct.exc)
             ELSE IF indirect.exc # "" THEN Raise(indirect.exc)
             ELSE IF tx.exc # "" THEN Raise(tx.exc)
             ELSE IF ty.exc # "" THEN Raise(ty.exc)
             ELSE Ok([direct_competitors |-> direct.val,
                      indirect_competitors |-> indirect.val,
                      industry_position |-> GetStr(data, "industry_position"),
                      positioning_axis_x |-> GetStr(data, "positioning_axis_x"),
                      positioning_axis_y |-> GetStr(data, "positioning_axis_y"),
                      target_position |-> <<tx.val, ty.val>>])

\* getattr(comp, "_target_position", (5, 5)): the position the positioning
\* map plots for the analysed company
TargetPosition(comp) ==
    IF comp.target_position = NO_POSITION THEN <<5, 5>> ELSE comp.target_position

\* research_customer after _search_and_analyze
CustomerOf(data) ==
    IF ~Truthy(data) THEN Ok(CustomerInfo)
    ELSE IF data.t # "dict" THEN Raise("AttributeError")
    ELSE Ok([market_size |-> GetStr(data, "market_size"),
             market_trend |-> GetStr(data, "market_trend"),
             target_segments |-> GetStrList(data, "target_segments"),
             target_description |-> GetStr(data, "target_description"),
             similar_cases |-> [i \in DOMAIN GetList(data, "similar_cases") |->
                                   _make_similar_case(GetList(data, "similar_cases")[i])]])

DEFAULT_FINDING == "see each section"

\* generate_key_findings after the request: data.get is called unguarded
KeyFindingsOf(data) ==
    IF data.t # "dict" THEN Raise("AttributeError")
    ELSE LET findings == DictGet(data, "key_findings", JList(<<JStr(DEFAULT_FINDING)>>))
             flist == IF findings.t = "list" THEN findings.v ELSE <<JStr(_safe_str(findings))>>
         IN  Ok([i \in DOMAIN flist |-> _safe_str(flist[i])])

(***************************************************************************)
(* The research run: run_full_research with _call_api_with_retry inlined.  *)
(*   pc      position in the run                                           *)
(*   phase   index in PHASES of the phase being run                        *)
(*   attempt loop variable of _call_api_with_retry                         *)
(*   calls   every request attempt made, in order (history)                *)
(*   labels  every label passed to the progress callback (history)         *)
(*   sleeps  every time.sleep duration (history)                           *)
(***************************************************************************)
PHASES_swapped == <<"company", "customer", "competitor", "summary", "done">>

PHASES == <<"company", "competitor", "customer", "summary", "done">>

max_retries_three == 2 + 1

max_retries == 2

wait_sec == 30

PHASE_PAUSE == 15

COMPANY_NAME == "Acme"

NO_RESULT == <<>>

TextBlock(text, cites) ==
    [type |-> "text", text |-> text, citations |-> cites,
     content_kind |-> "none", content |-> <<>>]

SearchBlock(kind, items) ==
    [type |-> "web_search_tool_result", text |-> <<>>, citations |-> <<>>,
     content_kind |-> kind, content |-> items]

OtherBlock(type) ==
    [type |-> type, text |-> <<>>, citations |-> <<>>, content_kind |-> "none", content |-> <<>>]

Entry(type, url, title) == [type |-> type, url |-> url, title |-> title]

Response(blocks) == [content_kind |-> "list", content |-> blocks]

\* texts a model answer may carry
RunTexts ==
    { <<>>,
      <<"txt">>,
      <<"fence_json", "v_array", "fence">>,
      <<"txt", "fence_json", "\n", "{", "m_name", "m_direct", "m_tx", "m_ty", "m_findings", "}",
        "\n", "fence">> }

\* citation / search result lists a model answer may carry
RunSourceLists ==
    { <<Entry("web_search_result", "u1", "t1")>>,
      <<Entry("web_search_result", "u2", "t2"), Entry("web_search_result", "u1", "t3")>> }

RunResponses ==
    { Response(<<OtherBlock("server_tool_use"), SearchBlock("list", srcs), TextBlock(txt, <<>>)>>) :
        txt \in RunTexts, srcs \in RunSourceLists }

\* the text generate_key_findings concatenates from the text blocks
FindingsText(response) ==
    IF response.content_kind # "list" THEN <<>>
    ELSE Concat([i \in DOMAIN response.content |->
                   IF response.content[i].type = "text" THEN response.content[i].text ELSE <<>>])

\* SourceInfo(url=s["url"], title=s.get("title", "")) for s in all_sources
SourceInfos(srcs) == [i \in DOMAIN srcs |-> [url |-> srcs[i].url, title |-> srcs[i].title]]

ResearchResult(company, competitor, customer, srcs) ==
    [client_name |-> COMPANY_NAME, company |-> company, competitor |-> competitor,
     customer |-> customer, key_findings |-> <<>>, sources |-> SourceInfos(srcs)]

Call(outcome, text) ==
    [phase |-> phase, outcome |-> outcome, nlabels |-> Len(labels), attempt |-> attempt,
     text |-> text]

\* the run leaves the variables of the other specifications alone
RunFrame == UNCHANGED <<extractVars, normVars, coordVars, deckVars, mapVars, appVars, cbVars>>

RunInit ==
    /\ pc = "start"
    /\ phase = 1
    /\ attempt = 0
    /\ calls = <<>>
    /\ labels = <<>>
    /\ sleeps = <<>>
    /\ all_sources = <<>>
    /\ company_info = NO_RESULT
    /\ competitor_info = NO_RESULT
    /\ customer_info = NO_RESULT
    /\ result = NO_RESULT
    /\ error = ""

\* client = _create_client(): get_api_key raises ValueError without a key
CreateClient ==
    /\ RunFrame
    /\ pc = "start"
    /\ \/ pc' = "progress" /\ error' = error
       \/ pc' = "raised" /\ error' = "ValueError"
    /\ UNCHANGED <<phase, attempt, calls, labels, sleeps, all_sources,
                   company_info, competitor_info, customer_info, result>>

\* _progress(label); after "done" the result is returned
Progress ==
    /\ RunFrame
    /\ pc = "progress"
    /\ labels' = Append(labels, PHASES[phase])
    /\ pc' = IF phase = 5 THEN "returned" ELSE "request"
    /\ attempt' = 0
    /\ UNCHANGED <<phase, calls, sleeps, all_sources,
                   company_info, competitor_info, customer_info, result, error>>

Fail(exc) ==
    /\ pc' = "raised"
    /\ error' = exc

\* one of the three analysis phases, from the response to the typed record
AnalysisPhase(response) ==
    LET ex == _extract_text_and_sources(response)
        data == _parse_json_from_text(ex.text)
        made == CASE phase = 1 -> CompanyOf(data, COMPANY_NAME)
                  [] phase = 2 -> CompetitorOf(data)
                  [] phase = 3 -> CustomerOf(data)
        collected == all_sources \o ex.sources
    IN  /\ calls' = Append(calls, Call("ok", ex.text))
        /\ IF made.exc # ""
           THEN /\ Fail(made.exc)
                /\ UNCHANGED <<phase, all_sources, company_info, competitor_info,
                               customer_info, result>>
           ELSE /\ all_sources' = collected
                /\ company_info' = IF phase = 1 THEN made.val ELSE company_info
                /\ competitor_info' = IF phase = 2 THEN made.val ELSE competitor_info
                /\ customer_info' = IF phase = 3 THEN made.val ELSE customer_info
                /\ error' = error
                /\ IF phase = 3
                   THEN /\ result' = ResearchResult(company_info, competitor_info,
                                                    made.val, collected)
                        /\ phase' = 4
                        /\ pc' = "progress"
                   ELSE /\ pc' = "pause"
                        /\ UNCHANGED <<phase, result>>

\* generate_key_findings, then the copy of _target_position
SynthesisPhase(response) ==
    LET text == FindingsText(response)
        made == KeyFindingsOf(_parse_json_from_text(text))
    IN  /\ calls' = Append(calls, Call("ok", text))
        /\ IF made.exc # ""
           THEN /\ Fail(made.exc)
                /\ UNCHANGED <<phase, result>>
           ELSE /\ result' = [result EXCEPT
                               !.key_findings = made.val,
                               !.competitor.target_position =
                                   IF competitor_info.target_position # NO_POSITION
                                   THEN competitor_info.target_position ELSE @]
                /\ phase' = 5
                /\ pc' = "progress"
                /\ error' = error
        /\ UNCHANGED <<all_sources, company_info, competitor_info, customer_info>>

\* func() returns: the wrapped request succeeded
RequestOk ==
    /\ RunFrame
    /\ pc = "request"
    /\ \E response \in RunResponses :
          IF phase = 4 THEN SynthesisPhase(response) ELSE AnalysisPhase(response)
    /\ UNCHANGED <<attempt, labels, sleeps>>

\* func() raises anthropic.RateLimitError
RequestRateLimited ==
    /\ RunFrame
    /\ pc = "request"
    /\ calls' = Append(calls, Call("rate_limit", <<>>))
    /\ IF attempt < max_retries
       THEN pc' = "backoff" /\ error' = error
       ELSE Fail("RateLimitExhausted")
    /\ UNCHANGED <<phase, attempt, labels, sleeps, all_sources,
                   company_info, competitor_info, customer_info, result>>

RequestErrorSwallowed ==
    /\ RunFrame
    /\ pc = "request"
    /\ calls' = Append(calls, Call("error", <<>>))
    /\ pc' = IF phase = 4 THEN "progress" ELSE "pause"
    /\ phase' = IF phase = 4 THEN 5 ELSE phase
    /\ error' = "APIError"
    /\ UNCHANGED <<attempt, labels, sleeps, all_sources,
                   company_info, competitor_info, customer_info, result>>

\* func() raises anything else: not caught, the run is aborted
RequestError ==
    /\ RunFrame
    /\ pc = "request"
    /\ calls' = Append(calls, Call("error", <<>>))
    /\ Fail("APIError")
    /\ UNCHANGED <<phase, attempt, labels, sleeps, all_sources,
                   company_info, competitor_info, customer_info, result>>

BackoffNoWait ==
    /\ RunFrame
    /\ pc = "backoff"
    /\ attempt' = attempt + 1
    /\ pc' = "request"
    /\ UNCHANGED <<phase, calls, labels, sleeps, all_sources,
                   company_info, competitor_info, customer_info, result, error>>

\* time.sleep(30), then the next iteration of the retry loop
Backoff ==
    /\ RunFrame
    /\ pc = "backoff"
    /\ sleeps' = Append(sleeps, wait_sec)
    /\ attempt' = attempt + 1
    /\ pc' = "request"
    /\ UNCHANGED <<phase, calls, labels, all_sources,
                   company_info, competitor_info, customer_info, result, error>>

PauseNoDelay ==
    /\ RunFrame
    /\ pc = "pause"
    /\ phase' = phase + 1
    /\ pc' = "progress"
    /\ UNCHANGED <<attempt, calls, labels, sleeps, all_sources,
                   company_info, competitor_info, customer_info, result, error>>

\* time.sleep(15) between two analysis phases
Pause ==
    /\ RunFrame
    /\ pc = "pause"
    /\ sleeps' = Append(sleeps, PHASE_PAUSE)
    /\ phase' = phase + 1
    /\ pc' = "progress"
    /\ UNCHANGED <<attempt, calls, labels, all_sources,
                   company_info, competitor_info, customer_info, result, error>>

\* the variables of a specification that is not running
IdleRun ==
    /\ pc = "idle" /\ phase = 0 /\ attempt = 0 /\ calls = <<>> /\ labels = <<>>
    /\ sleeps = <<>> /\ all_sources = <<>> /\ company_info = NO_RESULT
    /\ competitor_info = NO_RESULT /\ customer_info = NO_RESULT
    /\ result = NO_RESULT /\ error = ""

IdleExtract == content_list = <<>> /\ extracted = <<>>

IdleNorm == raw_text = <<>> /\ normalized = <<>>

IdleCoord == coord_in = <<>> /\ coord_out = <<>>

IdleDeck == deck_in = <<>> /\ deck_pc = 0 /\ slides = <<>> /\ placed = <<>>

IdleMap == map_in = <<>> /\ map_out = <<>>

IdleApp ==
    /\ app_pc = "idle" /\ run_id = 0 /\ session = <<>> /\ session_before = <<>>
    /\ archive = {}

IdleCallback == cb_mode = "idle" /\ cb_script = <<>> /\ cb_runs = <<>>

Init == RunInit /\ IdleExtract /\ IdleNorm /\ IdleCoord /\ IdleDeck /\ IdleMap /\ IdleApp /\ IdleCallback

Next ==
    \/ CreateClient
    \/ Progress
    \/ RequestOk
    \/ RequestRateLimited
    \/ RequestError
    \/ Backoff
    \/ Pause

Spec == Init /\ [][Next]_vars

(***************************************************************************)
(* Properties of the research run.                                         *)
(***************************************************************************)
PhaseCalls(p) == SelectSeq(calls, LAMBDA c : c.phase = p)

AllRateLimited(cs) == \A i \in DOMAIN cs : cs[i].outcome = "rate_limit"

\* C1: a request whose every attempt is rate-limited is attempted exactly
\* three times and then ends the run with the terminal rate-limit error; no
\* phase ever sees a fourth attempt.
C1_RetryBudget ==
    \A p \in 1..4 :
        LET a == PhaseCalls(p)
        IN  /\ Len(a) <= 3
            /\ (Len(a) = 3 /\ AllRateLimited(a))
                  => (pc = "raised" /\ error = "RateLimitExhausted" /\ phase = p)
            /\ (error = "RateLimitExhausted" /\ phase = p)
                  => (Len(a) = 3 /\ AllRateLimited(a))

C1_Witness ==
    /\ pc = "raised" /\ error = "RateLimitExhausted" /\ phase = 2
    /\ Len(PhaseCalls(2)) = 3

\* a request attempt after which _call_api_with_retry gives up
TerminalFailure(c) ==
    c.outcome = "error" \/ (c.outcome = "rate_limit" /\ c.attempt = 2)

\* C2: once the request of a phase has failed terminally the run is aborted:
\* nothing is returned, the failed attempt is the last request ever made and
\* the label of the failed phase is the last label ever emitted.
C2_FailureAborts ==
    \A i \in DOMAIN calls :
        TerminalFailure(calls[i]) =>
            /\ pc = "raised"
            /\ i = Len(calls)
            /\ Len(labels) = calls[i].nlabels
            /\ labels[Len(labels)] = PHASES[calls[i].phase]
            /\ "done" \notin Range(labels)

C2_Witness ==
    /\ pc = "raised" /\ error = "APIError" /\ phase = 4
    /\ labels = <<"company", "competitor", "customer", "summary">>

\* C3: the labels are a prefix of company, competitor, customer, summary,
\* done; a request is only attempted when the label of its phase is the
\* last one emitted; requests follow the phase order, each phase starting
\* after the previous one succeeded; done follows four successful requests.
C3_LabelOrder ==
    LET order == <<"company", "competitor", "customer", "summary", "done">>
        succeeded(p) == \E i \in DOMAIN calls : calls[i].phase = p /\ calls[i].outcome = "ok"
    IN  /\ Len(labels) <= 5
        /\ \A i \in DOMAIN labels : labels[i] = order[i]
        /\ \A i \in DOMAIN calls :
              /\ calls[i].phase \in 1..4
              /\ calls[i].nlabels = calls[i].phase
              /\ \A j \in 1..(i - 1) :
                    /\ calls[j].phase <= calls[i].phase
                    /\ calls[j].outcome = "ok" => calls[j].phase < calls[i].phase
              /\ calls[i].phase > 1 =>
                    \E j \in 1..(i - 1) :
                        calls[j].phase = calls[i].phase - 1 /\ calls[j].outcome = "ok"
        /\ "done" \in Range(labels) => \A p \in 1..4 : succeeded(p)

C3_Witness ==
    /\ pc = "returned"
    /\ labels = <<"company", "competitor", "customer", "summary", "done">>
    /\ \E i \in DOMAIN calls : calls[i].outcome = "rate_limit"

NoDuplicateUrl(srcs) ==
    \A i, j \in DOMAIN srcs : srcs[i].url = srcs[j].url => i = j

\* C4: after a successful run result.sources holds every collected URL once.
C4_SourcesDeduplicated ==
    pc = "returned" =>
        /\ NoDuplicateUrl(result.sources)
        /\ {result.sources[i].url : i \in DOMAIN result.sources}
              = {all_sources[i].url : i \in DOMAIN all_sources}

\* a text from which _parse_json_from_text obtains no JSON object
NoJsonObject(text) ==
    LET c == JsonCandidate(text)
    IN  ~(c.found /\ c.str # <<>> /\ JsonLoads(c.str).ok /\ JsonLoads(c.str).val.t = "dict")

AnalysisWithoutObject ==
    \A i \in DOMAIN calls :
        (calls[i].phase \in 1..3 /\ calls[i].outcome = "ok") => NoJsonObject(calls[i].text)

\* C8: when no analysis response carries a JSON object the run is aborted
\* only by a failed request, and a returned result holds the client name,
\* empty records and the collected sources.
C8_ParseFailureTolerated ==
    AnalysisWithoutObject =>
        /\ pc = "raised" => error \in {"ValueError", "RateLimitExhausted", "APIError"}
        /\ pc = "returned" =>
              /\ result.company.name = COMPANY_NAME
              /\ result.company.business_overview = "" /\ result.company.timeline = <<>>
              /\ result.company.recent_news = <<>> /\ result.company.sns_analysis = <<>>
              /\ result.competitor.direct_competitors = <<>>
              /\ result.competitor.indirect_competitors = <<>>
              /\ result.competitor.industry_position = ""
              /\ result.customer.market_size = "" /\ result.customer.target_segments = <<>>
              /\ result.customer.similar_cases = <<>>
              /\ {result.sources[i].url : i \in DOMAIN result.sources}
                    = {all_sources[i].url : i \in DOMAIN all_sources}

(***************************************************************************)
(* _extract_text_and_sources applied to bounded lists of content blocks.   *)
(***************************************************************************)
ExtractEntries(type) ==
    IF type = "citation"
    THEN { Entry(type, "", "a"), Entry(type, "u1", "a"), Entry(type, "u2", "a") }
    ELSE { Entry(type, "u1", "b"), Entry(type, "u2", "a") }

ExtractBlocks ==
    { TextBlock(<<"txt">>, cites) : cites \in SeqsUpTo(ExtractEntries("citation"), MaxEntries) }
    \cup { SearchBlock("list", items) :
             items \in SeqsUpTo(ExtractEntries("web_search_result"), MaxEntries) }
    \cup { SearchBlock("list", <<Entry("web_search_tool_result_error", "u3", "a"),
                                 Entry("web_search_result", "", "a")>>),
           SearchBlock("dict", <<>>), OtherBlock("server_tool_use"),
           [OtherBlock("thinking") EXCEPT !.citations = <<Entry("citation", "u3", "a")>>] }

ExtractInit ==
    /\ content_list \in {Response(blocks) : blocks \in SeqsUpTo(ExtractBlocks, MaxBlocks)}
                        \cup {[content_kind |-> "none", content |-> <<>>]}
    /\ extracted = <<>>
    /\ IdleRun /\ IdleNorm /\ IdleCoord /\ IdleDeck /\ IdleMap /\ IdleApp /\ IdleCallback

Extract ==
    /\ extracted = <<>>
    /\ extracted' = <<_extract_text_and_sources(content_list)>>
    /\ UNCHANGED <<content_list, runVars, normVars, coordVars, deckVars, mapVars, appVars, cbVars>>

ExtractNext == Extract

SpecExtract == ExtractInit /\ [][ExtractNext]_vars

\* the entries with a url that the citations and the search results of the
\* response hold, each at its position 100 * block + index
FoundEntries ==
    LET blocks == IF content_list.content_kind = "list" THEN content_list.content ELSE <<>>
        held(b) == IF blocks[b].type = "text" THEN blocks[b].citations
                   ELSE IF blocks[b].type = "web_search_tool_result"
                           /\ blocks[b].content_kind = "list"
                   THEN blocks[b].content ELSE <<>>
    IN  { [pos |-> 100 * b + e, url |-> held(b)[e].url, title |-> held(b)[e].title] :
            <<b, e>> \in { be \in (DOMAIN blocks) \X (1..MaxEntries + 1) :
                             /\ be[2] \in DOMAIN held(be[1])
                             /\ held(be[1])[be[2]].url # ""
                             /\ held(be[1])[be[2]].type # "web_search_tool_result_error" } }

FirstFound(url) ==
    CHOOSE f \in FoundEntries :
        f.url = url /\ \A g \in FoundEntries : g.url = url => f.pos <= g.pos

\* C5: the sources of one response hold each distinct non-empty URL of its
\* citations and search results exactly once, ordered by first occurrence
\* and with the title of the first occurrence; deduplicating them again
\* changes nothing.
C5_ExtractDedup ==
    extracted # <<>> =>
        LET out == extracted[1].sources
        IN  /\ NoDuplicateUrl(out)
            /\ {out[i].url : i \in DOMAIN out} = {f.url : f \in FoundEntries}
            /\ \A i \in DOMAIN out :
                  /\ out[i].title = FirstFound(out[i].url).title
                  /\ \A j \in DOMAIN out :
                        i < j => FirstFound(out[i].url).pos < FirstFound(out[j].url).pos
            /\ DedupFrom(out, {}) = out

C5_Witness ==
    /\ extracted # <<>>
    /\ Len(extracted[1].sources) = 2
    /\ Cardinality(FoundEntries) >= 4
    /\ \E f, g \in FoundEntries : f.url = g.url /\ f.title # g.title /\ f.pos < g.pos
                                  /\ f.pos < 200 /\ g.pos > 200

(***************************************************************************)
(* The four normalising entry points applied to bounded raw texts.         *)
(***************************************************************************)
TextAlphabet ==
    {"fence_json", "fence", "{", "}", "txt", "v_array", "v_empty_array", "v_null",
     "m_name", "m_findings"}

NormInit ==
    /\ raw_text \in SeqsUpTo(TextAlphabet, MaxTextLen)
    /\ normalized = <<>>
    /\ IdleRun /\ IdleExtract /\ IdleCoord /\ IdleDeck /\ IdleMap /\ IdleApp /\ IdleCallback

\* research_company, research_competitor, research_customer and
\* generate_key_findings on the same raw text
Normalize ==
    /\ normalized = <<>>
    /\ LET data == _parse_json_from_text(raw_text)
       IN  normalized' = <<[data |-> data,
                            company |-> CompanyOf(data, COMPANY_NAME),
                            competitor |-> CompetitorOf(data),
                            customer |-> CustomerOf(data),
                            findings |-> KeyFindingsOf(data)]>>
    /\ UNCHANGED <<raw_text, runVars, extractVars, coordVars, deckVars, mapVars, appVars, cbVars>>

NormNext == Normalize

SpecNormalize == NormInit /\ [][NormNext]_vars

IsText(x) == x \in {"", "7", "f1", "s", COMPANY_NAME, DEFAULT_FINDING}

\* C6: every raw text gives a typed value of the right shape from each of
\* the four entry points, none of which raises.
C6_NeverRaises ==
    normalized # <<>> =>
        LET r == normalized[1]
        IN  /\ r.company.exc = "" /\ r.competitor.exc = ""
            /\ r.customer.exc = "" /\ r.findings.exc = ""
            /\ IsText(r.company.val.name)
            /\ DOMAIN r.company.val = DOMAIN CompanyInfo("")
            /\ DOMAIN r.competitor.val = DOMAIN CompetitorInfo
            /\ DOMAIN r.customer.val = DOMAIN CustomerInfo
            /\ \A i \in DOMAIN r.findings.val : IsText(r.findings.val[i])

(***************************************************************************)
(* Coordinate coercion: _make_competitor on one competitor entry and       *)
(* research_competitor on the target-company position.                     *)
(***************************************************************************)
ABSENT == [t |-> "absent"]

CoordValues ==
    { ABSENT, None, JBool(TRUE), JNum(0), JNum(7), JNum(12), JNum(-3), JBigInt,
      JStr("7"), JStr("12"), JStr("abc"), JStr(""), JList(<<>>), JList(<<JNum(1)>>),
      JDict([position_x |-> JNum(1)]) }

\* the JSON object {"name": .., kx: x, ky: y}; an ABSENT member is left out
CoordDict(kx, x, ky, y) ==
    LET keys == {"name"} \cup (IF x = ABSENT THEN {} ELSE {kx})
                         \cup (IF y = ABSENT THEN {} ELSE {ky})
    IN  JDict([k \in keys |-> IF k = kx THEN x ELSE IF k = ky THEN y ELSE JStr("Beta")])

CoordInit ==
    /\ coord_in \in [site : {"competitor", "target"}, x : CoordValues, y : CoordValues]
    /\ coord_out = <<>>
    /\ IdleRun /\ IdleExtract /\ IdleNorm /\ IdleDeck /\ IdleMap /\ IdleApp /\ IdleCallback

\* _make_competitor(c) for a competitor entry
CoerceCompetitor ==
    /\ coord_out = <<>> /\ coord_in.site = "competitor"
    /\ LET made == _make_competitor(CoordDict("position_x", coord_in.x,
                                              "position_y", coord_in.y))
       IN  coord_out' = <<IF made.exc # "" THEN made
                          ELSE Ok(<<made.val.position_x, made.val.position_y>>)>>
    /\ UNCHANGED <<coord_in, runVars, extractVars, normVars, deckVars, mapVars, appVars, cbVars>>

\* research_competitor on parsed data holding the target-company position
CoerceTarget ==
    /\ coord_out = <<>> /\ coord_in.site = "target"
    /\ LET made == CompetitorOf(CoordDict("target_company_position_x", coord_in.x,
                                          "target_company_position_y", coord_in.y))
       IN  coord_out' = <<IF made.exc # "" THEN made ELSE Ok(made.val.target_position)>>
    /\ UNCHANGED <<coord_in, runVars, extractVars, normVars, deckVars, mapVars, appVars, cbVars>>

CoordNext == CoerceCompetitor \/ CoerceTarget

SpecCoord == CoordInit /\ [][CoordNext]_vars

Unparseable(val) == val.t \in {"absent", "null", "list", "dict"} \/ val \in {JStr("abc"), JStr("")}

\* C7: a coordinate that is absent or does not parse as a number becomes 5.0
\* and a number or numeric string becomes that number, for competitor
\* entries and for the target-company position.
C7_CoordinateCoercion ==
    coord_out # <<>> =>
        /\ coord_out[1].exc = ""
        /\ Unparseable(coord_in.x) => coord_out[1].val[1] = 5
        /\ Unparseable(coord_in.y) => coord_out[1].val[2] = 5
        /\ coord_in.x.t = "num" => coord_out[1].val[1] = coord_in.x.v
        /\ coord_in.y.t = "num" => coord_out[1].val[2] = coord_in.y.v
        /\ coord_in.x = JStr("12") => coord_out[1].val[1] = 12
        /\ coord_in.y = JStr("7") => coord_out[1].val[2] = 7

(***************************************************************************)
(* The slide layout engine: build_pptx_bytes and its section functions.    *)
(*   deck_pc  index in SECTIONS of the next section to build               *)
(*   slides   the slides added so far, [section, page]                     *)
(*   deck_in  the part of the ResearchResult the last section read; texts  *)
(*            are given by their lengths; bad_year is the index of the      *)
(*            timeline event whose year has no leading integer, 0 if none   *)
(*   placed   the blocks the last section placed, with the index of their  *)
(*            slide and their top y                                        *)
(***************************************************************************)
SECTIONS_swapped ==
    <<"cover", "executive_summary", "company", "competitor", "customer",
      "questions", "perspective", "appendix">>

SECTIONS ==
    <<"cover", "executive_summary", "company", "competitor", "customer",
      "perspective", "questions", "appendix">>

SectionIndex(name) == CHOOSE i \in DOMAIN SECTIONS : SECTIONS[i] = name

Slide(section, page) == [section |-> section, page |-> page]

\* the one-character marker U+2026; "..." is three full stops
ELLIPSIS == "U+2026"

\* value[:budget] + marker if len(value) > budget else value
Cut(len, budget, marker) ==
    IF len > budget THEN [len |-> len, chars |-> budget, marker |-> marker]
    ELSE [len |-> len, chars |-> len, marker |-> ""]

DeckInit ==
    /\ deck_in = <<>>
    /\ deck_pc = 1
    /\ slides = <<>>
    /\ placed = <<>>
    /\ IdleRun /\ IdleExtract /\ IdleNorm /\ IdleCoord /\ IdleMap /\ IdleApp /\ IdleCallback

DeckFrame == UNCHANGED <<runVars, extractVars, normVars, coordVars, mapVars, appVars, cbVars>>

_slide_cover ==
    /\ DeckFrame
    /\ deck_pc = SectionIndex("cover")
    /\ slides' = Append(slides, Slide("cover", 1))
    /\ placed' = <<>>
    /\ deck_in' = <<>>
    /\ deck_pc' = deck_pc + 1

_slide_executive_summary ==
    /\ DeckFrame
    /\ deck_pc = SectionIndex("executive_summary")
    /\ \E n_findings \in {0, 3, 6} :
          /\ deck_in' = [key_findings |-> n_findings]
          /\ placed' = [i \in 1..Min(n_findings, 5) |->
                          [slide |-> Len(slides) + 1, kind |-> "finding", num |-> i,
                           y |-> 280 + 55 * (i - 1)]]
    /\ slides' = Append(slides, Slide("executive_summary", 1))
    /\ deck_pc' = deck_pc + 1

RECURSIVE InfoRows(_, _, _, _)
\* the rows of the company information box: empty values are skipped
InfoRows(lens, i, y, slide) ==
    IF i > Len(lens) THEN <<>>
    ELSE IF lens[i] = 0 THEN InfoRows(lens, i + 1, y, slide)
    ELSE <<[slide |-> slide, kind |-> "info", num |-> i, y |-> y,
            text |-> Cut(lens[i], 200, "...")]>>
         \o InfoRows(lens, i + 1, y + (IF lens[i] <= 80 THEN 70 ELSE 100), slide)

RECURSIVE NewsRows(_, _, _, _, _)
\* for news in display_news: an item that does not fit ends the loop; cuts
\* are the title and, when there is one, the summary
NewsRows(n, i, y, slide, cuts) ==
    IF i > n \/ y + 85 > 680 THEN <<>>
    ELSE <<[slide |-> slide, kind |-> "news", num |-> i, y |-> y, cuts |-> cuts]>>
         \o NewsRows(n, i + 1, y + 85, slide, cuts)

\* the timelines given to the company section: none; nine events with
\* parseable years and short descriptions; nine events of which the second
\* has a year without leading integer, with long descriptions
TimelineInputs ==
    {[n |-> 0, bad_year |-> 0, description |-> 40],
     [n |-> 9, bad_year |-> 0, description |-> 40],
     [n |-> 9, bad_year |-> 2, description |-> 41]}

_slide_company ==
    /\ DeckFrame
    /\ deck_pc = SectionIndex("company")
    /\ \E info \in {<<name, value, value, value, value>> : name, value \in {0, 80, 201}},
          timeline \in TimelineInputs, n_news \in {0, 5},
          n_sns \in {0, MaxListLen, 6}, momentum \in {0, 10},
          title \in {60, 61}, summary \in {0, 81} :
          LET first == Len(slides) + 1
              n_timeline == timeline.n
              bad_year == timeline.bad_year
              event_description == timeline.description
              events == Min(n_timeline, 8)
              news_y == IF events > 0 THEN 360 ELSE 120
              available == 680 - (news_y + 50)
              max_news_count == IF available \div 85 < 1 THEN 1 ELSE available \div 85
              display_news == Min(n_news, Min(4, max_news_count))
              third == n_sns > 0 \/ momentum > 0
          IN  /\ deck_in' = [info |-> info, timeline |-> n_timeline, recent_news |-> n_news,
                             sns_analysis |-> n_sns, brand_momentum |-> momentum,
                             news_title |-> title, news_summary |-> summary,
                             bad_year |-> bad_year, event_description |-> event_description]
              /\ slides' = slides \o <<Slide("company", 1), Slide("company", 2)>>
                             \o (IF third THEN <<Slide("company", 3)>> ELSE <<>>)
              /\ placed' = InfoRows(info, 1, 120, first)
                    \o [i \in 1..events |->
                          [slide |-> first + 1, kind |-> "event", num |-> i,
                           y |-> IF (i - 1) % 2 = 0 THEN 100 ELSE 260,
                           year_ok |-> i # bad_year,
                           cuts |-> <<Cut(event_description, 40, ELLIPSIS)>>]]
                    \o <<[slide |-> first + 1, kind |-> "news_heading", num |-> 0, y |-> news_y]>>
                    \o NewsRows(display_news, 1, news_y + 50, first + 1,
                                <<Cut(title, 60, ELLIPSIS)>>
                                \o (IF summary > 0 THEN <<Cut(summary, 80, ELLIPSIS)>>
                                    ELSE <<>>))
                    \o (IF third /\ momentum > 0
                        THEN <<[slide |-> first + 2, kind |-> "momentum", num |-> 0, y |-> 120]>>
                        ELSE <<>>)
                    \o (IF third
                        THEN [i \in 1..n_sns |->
                                [slide |-> first + 2, kind |-> "sns", num |-> i,
                                 y |-> 280 + 100 * (i - 1)]]
                        ELSE <<>>)
    /\ deck_pc' = deck_pc + 1

_slide_competitor ==
    /\ DeckFrame
    /\ deck_pc = SectionIndex("competitor")
    /\ \E n_direct \in 0..MaxListLen, n_indirect \in 0..MaxListLen, position \in {0, 121},
          client_name \in {12, 13}, cell \in {80, 81} :
          LET first == Len(slides) + 1
              all_competitors == n_direct + n_indirect
          IN  /\ deck_in' = [direct_competitors |-> n_direct,
                             indirect_competitors |-> n_indirect,
                             industry_position |-> position,
                             client_name |-> client_name, cell |-> cell]
              /\ slides' = slides \o <<Slide("competitor", 1)>>
                             \o (IF all_competitors > 0 THEN <<Slide("competitor", 2)>> ELSE <<>>)
              /\ placed' = <<[slide |-> first, kind |-> "map", num |-> 0, y |-> 120]>>
                    \o [i \in 1..3 |-> [slide |-> first, kind |-> "legend", num |-> i,
                                        y |-> 130 + 35 + (i - 1) * 30,
                                        cuts |-> IF i = 1 THEN <<Cut(client_name, 12, "")>>
                                                 ELSE <<>>]]
                    \o (IF position > 0
                        THEN <<[slide |-> first, kind |-> "industry_position", num |-> 0,
                                y |-> 130 + 35 + 3 * 30 + 30 + 30,
                                text |-> Cut(position, 120, ELLIPSIS)]>>
                        ELSE <<>>)
                    \o [i \in 1..all_competitors |->
                          [slide |-> first + 1, kind |-> "table_row", num |-> i, y |-> 120,
                           cuts |-> <<Cut(cell, 80, ""), Cut(cell, 80, ""), Cut(cell, 80, "")>>]]
    /\ deck_pc' = deck_pc + 1

\* the mutated limit: a lower safety margin, under which the continuation
\* branches are taken
MAX_Y_low == 400 + 50

MAX_Y == 650

RECURSIVE CaseRows(_, _, _, _, _)
\* for case in similar_cases[:3]: a case that does not fit ends the loop;
\* cuts are the description and, when there is one, the relevance
CaseRows(n, i, y, slide, cuts) ==
    IF i > n \/ y + 120 > MAX_Y THEN <<>>
    ELSE <<[slide |-> slide, kind |-> "case", num |-> i, y |-> y, cuts |-> cuts]>>
         \o CaseRows(n, i + 1, y + 120, slide, cuts)

_slide_customer ==
    /\ DeckFrame
    /\ deck_pc = SectionIndex("customer")
    /\ \E market_size \in {0, 250}, market_trend \in {0, 250}, n_segments \in {0, 6},
          description \in {0, 250}, n_cases \in 0..(MaxListLen + 2),
          segment \in {40, 41}, case_description \in {100, 101}, relevance \in {0, 81} :
          LET first == Len(slides) + 1
              y1 == 120 + (IF market_size > 0 THEN 110 ELSE 0)
              y2 == y1 + (IF market_trend > 0 THEN 130 ELSE 0)
              target == n_segments > 0 \/ description > 0
              break3 == target /\ y2 + 100 > MAX_Y
              slide3 == IF break3 THEN first + 1 ELSE first
              y3top == IF break3 THEN 120 ELSE y2
              y3 == IF target THEN y3top + 130 ELSE y2
              break4 == n_cases > 0 /\ y3 + 100 > MAX_Y
              slide4 == IF break4 THEN slide3 + 1 ELSE slide3
              y4top == IF break4 THEN 120 ELSE y3
          IN  /\ deck_in' = [market_size |-> market_size, market_trend |-> market_trend,
                             target_segments |-> n_segments,
                             target_description |-> description, similar_cases |-> n_cases,
                             segment |-> segment, case_description |-> case_description,
                             relevance |-> relevance]
              /\ slides' = slides \o [k \in 1..(slide4 - first + 1) |-> Slide("customer", k)]
              /\ placed' =
                    (IF market_size > 0
                     THEN <<[slide |-> first, kind |-> "market_size", num |-> 0, y |-> 120,
                             text |-> Cut(market_size, 200, ELLIPSIS)]>> ELSE <<>>)
                    \o (IF market_trend > 0
                        THEN <<[slide |-> first, kind |-> "market_trend", num |-> 0, y |-> y1,
                                text |-> Cut(market_trend, 200, ELLIPSIS)]>> ELSE <<>>)
                    \o (IF target
                        THEN <<[slide |-> slide3, kind |-> "target", num |-> Min(n_segments, 5),
                                y |-> y3top, text |-> Cut(description, 200, ELLIPSIS),
                                cuts |-> [k \in 1..Min(n_segments, 5) |-> Cut(segment, 40, "")]]>>
                        ELSE <<>>)
                    \o (IF n_cases > 0
                        THEN <<[slide |-> slide4, kind |-> "cases_heading", num |-> 0,
                                y |-> y4top]>>
                             \o CaseRows(Min(n_cases, 3), 1, y4top + 40, slide4,
                                         <<Cut(case_description, 100, ELLIPSIS)>>
                                         \o (IF relevance > 0
                                             THEN <<Cut(relevance, 80, ELLIPSIS)>> ELSE <<>>))
                        ELSE <<>>)
    /\ deck_pc' = deck_pc + 1

\* the mutated guard: any non-empty field of the perspective counts
HasAnyField(needs, others) == (\E who \in DOMAIN needs : needs[who] > 0) \/ others > 0

\* perspective.executive.needs or perspective.frontline.needs or
\* perspective.customer.needs; concerns and opportunities are not consulted
HasNeeds(needs, others) == \E who \in DOMAIN needs : needs[who] > 0

_slide_perspective ==
    /\ DeckFrame
    /\ deck_pc = SectionIndex("perspective")
    /\ \E needs \in [{"executive", "frontline", "customer"} -> {0, 250}], others \in {0, 10} :
          LET emitted == HasNeeds(needs, others)
              column(who) == CASE who = "executive" -> 1 [] who = "frontline" -> 2
                               [] who = "customer" -> 3
              who_of(c) == CHOOSE who \in DOMAIN needs : column(who) = c
          IN  /\ deck_in' = [needs |-> needs, concerns |-> others, opportunities |-> others]
              /\ slides' = IF emitted THEN Append(slides, Slide("perspective", 1)) ELSE slides
              /\ placed' = IF ~emitted THEN <<>>
                           ELSE [k \in 1..9 |->
                                   [slide |-> Len(slides) + 1, kind |-> "perspective",
                                    num |-> k, y |-> 150 + 180 * ((k - 1) % 3),
                                    text |-> Cut(IF (k - 1) % 3 = 0
                                                 THEN needs[who_of((k - 1) \div 3 + 1)]
                                                 ELSE others, 200, ELLIPSIS)]]
    /\ deck_pc' = deck_pc + 1

PER_SLIDE_ten == 12 - 2

PER_SLIDE == 12

QUESTION_LIMIT == 30

RECURSIVE QuestionPages(_, _, _, _)
\* while page * PER_SLIDE < total: one slide with questions[start_idx:end_idx],
\* numbered from start_idx + 1
QuestionPages(total, page, slide, cuts) ==
    IF page * PER_SLIDE < total
    THEN LET start_idx == page * PER_SLIDE
             end_idx == Min(start_idx + PER_SLIDE, total)
         IN  [k \in 1..(end_idx - start_idx) |->
                 [slide |-> slide, kind |-> "question", q |-> start_idx + k,
                  num |-> start_idx + 1 + (k - 1), y |-> 130 + 42 * (k - 1),
                  cuts |-> cuts]]
             \o QuestionPages(total, page + 1, slide + 1, cuts)
    ELSE <<>>

_slide_questions ==
    /\ DeckFrame
    /\ deck_pc = SectionIndex("questions")
    /\ \E n_questions \in 0..MaxQuestions, question \in {120, 121} :
          LET total == Min(n_questions, QUESTION_LIMIT)
              rows == QuestionPages(total, 0, Len(slides) + 1,
                                    <<Cut(question, 120, ELLIPSIS)>>)
              pages == IF rows = <<>> THEN 0 ELSE rows[Len(rows)].slide - Len(slides)
          IN  /\ deck_in' = [questions |-> n_questions, question |-> question]
              /\ placed' = rows
              /\ slides' = slides \o [k \in 1..pages |-> Slide("questions", k)]
    /\ deck_pc' = deck_pc + 1

\* The appendix cursor is a double: sign of the difference between the value
\* reached by k additions of 0.4 to the start and the decimal start + 0.4 k
\* (1.3 + 13 * 0.4 evaluates to 6.500000000000002).
DRIFT_FROM_130 == <<0, 1, 0, 0, 0, 0, -1, 0, 0, 0, 1, 1, 1, 1, 1, 1, 1, 1, 1, 1, 1>>

DRIFT_FROM_100 == <<0, 0, -1, -1, -1, -1, -1, -1, -1, 0, 0, 0, 1, 1, 1, 1, 1, 1, 1, 1, 1>>

\* y > limit for the cursor reached from `start` by k additions of 0.4
CursorExceeds(start, k, limit) ==
    LET drift == IF start = 130 THEN DRIFT_FROM_130[k + 1] ELSE DRIFT_FROM_100[k + 1]
    IN  start + 40 * k > limit \/ (start + 40 * k = limit /\ drift > 0)

\* the mutated limit: two more sources are listed
SOURCE_LIMIT_more == 20 + 2

SOURCE_LIMIT == 20

RECURSIVE AppendixRows(_, _, _, _, _, _)
\* for i, source in enumerate(result.sources[:20], 1); cuts are the title
\* line and the URL line
AppendixRows(n, i, start, k, slide, cuts) ==
    IF i > n THEN <<>>
    ELSE LET over == CursorExceeds(start, k, 650)
             start2 == IF over THEN 100 ELSE start
             k2 == IF over THEN 0 ELSE k
             slide2 == IF over THEN slide + 1 ELSE slide
         IN  <<[slide |-> slide2, kind |-> "source", num |-> i, y |-> start2 + 40 * k2,
                cuts |-> cuts]>>
             \o AppendixRows(n, i + 1, start2, k2 + 1, slide2, cuts)

_slide_appendix ==
    /\ DeckFrame
    /\ deck_pc = SectionIndex("appendix")
    /\ \E n_sources \in 0..MaxSources, source_title \in {0, 81}, url \in {100, 101} :
          LET first == Len(slides) + 1
              \* title = source.title or source.url
              title == IF source_title > 0 THEN source_title ELSE url
              rows == AppendixRows(Min(n_sources, SOURCE_LIMIT), 1, 130, 0, first,
                                   <<Cut(title, 80, ""), Cut(url, 100, "")>>)
              pages == IF rows = <<>> THEN 1 ELSE rows[Len(rows)].slide - first + 1
          IN  /\ deck_in' = [sources |-> n_sources, header_count |-> n_sources,
                             source_title |-> source_title, url |-> url]
              /\ placed' = rows
              /\ slides' = slides \o [k \in 1..pages |-> Slide("appendix", k)]
    /\ deck_pc' = deck_pc + 1

\* prs.save(buf): the deck is complete
SaveDeck ==
    /\ DeckFrame
    /\ deck_pc = Len(SECTIONS) + 1
    /\ deck_pc' = deck_pc + 1
    /\ UNCHANGED <<deck_in, slides, placed>>

\* build_pptx_bytes
DeckNext ==
    \/ _slide_cover
    \/ _slide_executive_summary
    \/ _slide_company
    \/ _slide_competitor
    \/ _slide_customer
    \/ _slide_perspective
    \/ _slide_questions
    \/ _slide_appendix
    \/ SaveDeck

SpecDeck == DeckInit /\ [][DeckNext]_vars

(***************************************************************************)
(* Properties of the deck.                                                 *)
(***************************************************************************)
SlideCount(section) == Cardinality({i \in DOMAIN slides : slides[i].section = section})

DeckBuilt == deck_pc = 10

\* C9: the slides come in the order cover, executive summary, company,
\* competitor, customer, perspective, questions, appendix; a built deck has
\* one cover and one executive summary slide, 1..3 company, 1..2 competitor,
\* 1..2 customer, 0..1 perspective and at least one appendix slide; empty
\* perspective data gives no perspective slide.
C9_DeckSections ==
    LET order == <<"cover", "executive_summary", "company", "competitor", "customer",
                   "perspective", "questions", "appendix">>
        rank(section) == CHOOSE i \in DOMAIN order : order[i] = section
    IN  /\ \A i, j \in DOMAIN slides :
              i < j => rank(slides[i].section) <= rank(slides[j].section)
        /\ SlideCount("cover") <= 1 /\ SlideCount("executive_summary") <= 1
        /\ SlideCount("company") <= 3 /\ SlideCount("competitor") <= 2
        /\ SlideCount("customer") <= 2 /\ SlideCount("perspective") <= 1
        /\ DeckBuilt =>
              /\ SlideCount("cover") = 1 /\ SlideCount("executive_summary") = 1
              /\ SlideCount("company") >= 1 /\ SlideCount("competitor") >= 1
              /\ SlideCount("customer") >= 1 /\ SlideCount("appendix") >= 1
        /\ ("needs" \in DOMAIN deck_in
              /\ deck_in.concerns = 0 /\ deck_in.opportunities = 0
              /\ \A who \in DOMAIN deck_in.needs : deck_in.needs[who] = 0)
              => SlideCount("perspective") = 0

C9_Witness ==
    /\ DeckBuilt
    /\ SlideCount("company") = 3 /\ SlideCount("competitor") = 2
    /\ SlideCount("perspective") = 1 /\ SlideCount("questions") = 3
    /\ SlideCount("appendix") = 2

\* the rows placed on the page-th slide of the section just built
RowsOnPage(page) ==
    LET slide == Len(slides) - SlideCount("questions") + page
    IN  Cardinality({i \in DOMAIN placed : placed[i].slide = slide})

\* n questions are rendered as ceil(n / 12) slides of 12 rows, the last one
\* holding the rest, each question once, in order, numbered from 1
QuestionsPaginated(n) ==
    LET pages == (n + 11) \div 12
    IN  /\ SlideCount("questions") = pages
        /\ Len(placed) = n
        /\ \A i \in DOMAIN placed :
              /\ placed[i].q = i
              /\ placed[i].num = i
              /\ placed[i].slide = Len(slides) - pages + ((i - 1) \div 12) + 1
        /\ \A page \in 1..pages :
              RowsOnPage(page) = IF page < pages THEN 12 ELSE n - 12 * (pages - 1)

\* C10 as stated: every one of the n questions is rendered, on ceil(n / 12)
\* slides of 12 questions except possibly the last, numbered 1..n.
C10_AllQuestionsPaginated ==
    "questions" \in DOMAIN deck_in => QuestionsPaginated(deck_in.questions)

\* C10: the first min(n, 30) questions are rendered, on ceil(min(n, 30) / 12)
\* slides of 12 questions except possibly the last, each once, in order and
\* numbered continuously from 1; no question gives no slide.
C10_QuestionsPaginated ==
    "questions" \in DOMAIN deck_in =>
        QuestionsPaginated(IF deck_in.questions > 30 THEN 30 ELSE deck_in.questions)

C10_Witness ==
    /\ "questions" \in DOMAIN deck_in
    /\ deck_in.questions = 25
    /\ SlideCount("questions") = 3
    /\ RowsOnPage(1) = 12 /\ RowsOnPage(2) = 12 /\ RowsOnPage(3) = 1

\* the number of characters of a marker: "..." is three full stops
MarkerLen(marker) ==
    CASE marker = "" -> 0
      [] marker = ELLIPSIS -> 1
      [] marker = "..." -> 3

\* the kinds of block whose text has a budget of 200 characters
BUDGET_200_KINDS == {"info", "market_size", "market_trend", "target", "perspective"}

\* C11: in every field with a budget of 200 characters a longer text is
\* rendered as its first 200 characters and one one-character ellipsis
\* marker, 201 characters in all, and a text of at most 200 characters is
\* rendered unchanged.
C11_Budget200 ==
    \A i \in DOMAIN placed :
        placed[i].kind \in BUDGET_200_KINDS =>
            LET t == placed[i].text
            IN  IF t.len > 200
                THEN /\ t.chars = 200 /\ t.marker = ELLIPSIS
                     /\ t.chars + MarkerLen(t.marker) = 201
                ELSE t.chars = t.len /\ t.marker = ""

(***************************************************************************)
(* _create_positioning_map: the label offsets of the plotted points.       *)
(* Coordinates are in tenths; an offset (ox, oy) moves a label by ox / 10   *)
(* and oy / 10, that is by ox and oy tenths.  The points are the target     *)
(* company followed by the direct and the indirect competitors.             *)
(***************************************************************************)
OFFSETS_single == <<<<8, 8>>>>

OFFSETS == <<<<8, 8>>, <<-8, 8>>, <<8, -12>>, <<-8, -12>>, <<12, 0>>, <<-12, 0>>>>

MapXS == {1, 9, 50, 58}

MapYS == {50, 53, 56}

\* The comparisons are made on doubles.  <<c, oc, l, ol>> is listed when the
\* decimal distance of c + oc and l + ol is exactly the tolerance but
\* abs((c/10 + oc/10) - (l/10 + ol/10)) < 0.8 evaluates to true
\* ((5.0 + 0.8) - (5.8 + 0.8) is -0.7999999999999998).
ROUNDS_BELOW_X ==
    { <<1, -12, 9, -12>>, <<9, -12, 1, -12>>, <<50, 8, 58, 8>>, <<50, 8, 58, -8>>,
      <<50, -8, 58, -8>>, <<50, 12, 58, 12>>, <<50, -12, 58, -12>>, <<58, 8, 50, 8>>,
      <<58, -8, 50, 8>>, <<58, -8, 50, -8>>, <<58, 12, 50, 12>>, <<58, -12, 50, -12>> }

\* the same for abs(..) < 0.6 on the vertical coordinates
ROUNDS_BELOW_Y ==
    { <<50, 8, 56, 8>>, <<50, -12, 56, -12>>, <<50, 0, 56, 0>>,
      <<56, 8, 50, 8>>, <<56, -12, 50, -12>>, <<56, 0, 50, 0>>}

Abs(n) == IF n < 0 THEN -n ELSE n

\* abs((c + oc / 10) - l) < limit, l being the stored label coordinate lc + lo / 10
FloatNear(c, oc, lc, lo, limit, below) ==
    LET d == Abs((c + oc) - (lc + lo))
    IN  d < limit \/ (d = limit /\ <<c, oc, lc, lo>> \in below)

\* a placed label is [x, ox, y, oy]: the point and the offset it was given
Conflict(px, py, o, placed_labels) ==
    \E k \in DOMAIN placed_labels :
        /\ FloatNear(px, o[1], placed_labels[k].x, placed_labels[k].ox, 8, ROUNDS_BELOW_X)
        /\ FloatNear(py, o[2], placed_labels[k].y, placed_labels[k].oy, 6, ROUNDS_BELOW_Y)

_get_offset_last(px, py, placed_labels) ==
    LET free == {k \in DOMAIN OFFSETS : ~Conflict(px, py, OFFSETS[k], placed_labels)}
    IN  IF free = {} THEN <<8, 8>>
        ELSE OFFSETS[CHOOSE k \in free : \A j \in free : k >= j]

\* the first candidate offset free of conflict, (8, 8) when there is none
_get_offset(px, py, placed_labels) ==
    LET free == {k \in DOMAIN OFFSETS : ~Conflict(px, py, OFFSETS[k], placed_labels)}
    IN  IF free = {} THEN <<8, 8>>
        ELSE OFFSETS[CHOOSE k \in free : \A j \in free : k <= j]

RECURSIVE PlaceLabels(_, _)
\* the offsets given to the points in plotting order; placed_labels grows
PlaceLabels(points, placed_labels) ==
    IF points = <<>> THEN <<>>
    ELSE LET p == Head(points)
             o == _get_offset(p[1], p[2], placed_labels)
         IN  <<o>> \o PlaceLabels(Tail(points),
                         Append(placed_labels, [x |-> p[1], ox |-> o[1], y |-> p[2], oy |-> o[2]]))

_create_positioning_map(points) == PlaceLabels(points, <<>>)

MapInit ==
    /\ map_in \in UNION {[1..k -> MapXS \X MapYS] : k \in 1..MaxPoints}
    /\ map_out = <<>>
    /\ IdleRun /\ IdleExtract /\ IdleNorm /\ IdleCoord /\ IdleDeck
    /\ IdleApp /\ IdleCallback

CreatePositioningMap ==
    /\ map_out = <<>>
    /\ map_out' = _create_positioning_map(map_in)
    /\ UNCHANGED <<map_in, runVars, extractVars, normVars, coordVars, deckVars, appVars, cbVars>>

MapNext == CreatePositioningMap

SpecMap == MapInit /\ [][MapNext]_vars

\* the second point lies within the tolerance rectangle of the first
WithinRectangle == Abs(map_in[2][1] - map_in[1][1]) < 8 /\ Abs(map_in[2][2] - map_in[1][2]) < 6

\* the second point lies beyond the edge of the tolerance rectangle
BeyondRectangle == Abs(map_in[2][1] - map_in[1][1]) > 8 \/ Abs(map_in[2][2] - map_in[1][2]) > 6

NO_ENTRY == 0

AppInit ==
    /\ app_pc = "ready"
    /\ run_id = 0
    /\ session = [last_result |-> NO_ENTRY, last_pptx |-> NO_ENTRY]
    /\ session_before = session
    /\ archive = {}
    /\ IdleRun /\ IdleExtract /\ IdleNorm /\ IdleCoord /\ IdleDeck /\ IdleMap /\ IdleCallback

AppFrame == UNCHANGED <<runVars, extractVars, normVars, coordVars, deckVars, mapVars, cbVars>>

\* except Exception: status.update, st.error, st.stop()
Caught == app_pc' = "caught"

\* the button is pressed: a script run starts the try block
ClickRun ==
    /\ AppFrame
    /\ app_pc \in {"ready", "done", "caught"}
    /\ run_id < MaxRuns
    /\ run_id' = run_id + 1
    /\ session_before' = session
    /\ app_pc' = "research"
    /\ UNCHANGED <<session, archive>>

\* result = run_full_research(...): returns a result or raises
RunFullResearch ==
    /\ AppFrame
    /\ app_pc = "research"
    /\ \/ app_pc' = "store_result"
       \/ Caught
    /\ UNCHANGED <<run_id, session, session_before, archive>>

\* st.session_state["last_result"] = result
StoreResult ==
    /\ AppFrame
    /\ app_pc = "store_result"
    /\ session' = [session EXCEPT !.last_result = run_id]
    /\ app_pc' = "archive"
    /\ UNCHANGED <<run_id, session_before, archive>>

\* json_path = save_result_json(result): open() raises, or the file is
\* created and json.dump raises on the way, or the file is written
SaveResultJson ==
    /\ AppFrame
    /\ app_pc = "archive"
    /\ \/ archive' = archive \cup {run_id} /\ app_pc' = "deck"
       \/ archive' = archive \cup {run_id} /\ Caught
       \/ archive' = archive /\ Caught
    /\ UNCHANGED <<run_id, session, session_before>>

\* pptx_bytes = build_pptx_bytes(result); st.session_state["last_pptx"] = ..
BuildPptx ==
    /\ AppFrame
    /\ app_pc = "deck"
    /\ \/ /\ session' = [session EXCEPT !.last_pptx = run_id]
          /\ app_pc' = "done"
       \/ /\ Caught
          /\ session' = session
    /\ UNCHANGED <<run_id, session_before, archive>>

AppNext ==
    \/ ClickRun
    \/ RunFullResearch
    \/ StoreResult
    \/ SaveResultJson
    \/ BuildPptx

SpecApp == AppInit /\ [][AppNext]_vars

\* C13: a run that failed at any step has left nothing behind: no archive
\* file of that run exists and last_result and last_pptx are what they were
\* before the run; after every run the two entries belong to the same run.
C13_NoPartialOutput ==
    /\ app_pc = "caught" => (run_id \notin archive /\ session = session_before)
    /\ app_pc \in {"ready", "done", "caught"} => session.last_result = session.last_pptx

(***************************************************************************)
(* Waits and delays of the research run.                                   *)
(***************************************************************************)
\* the number of sleeps of the given duration so far
SleepCount(sec) == Cardinality({i \in DOMAIN sleeps : sleeps[i] = sec})

\* the rate-limited attempts so far that did not exhaust the retry budget
RetriedFailures ==
    Cardinality({i \in DOMAIN calls : calls[i].outcome = "rate_limit" /\ calls[i].attempt < 2})

\* no execution of _call_api_with_retry is under way
NoCallUnderWay == pc \notin {"request", "backoff"}

\* C14: every 30-unit wait follows a rate-limited attempt that is retried and
\* every such attempt is followed by one wait, so that once a call has
\* returned or raised its waits number its attempts minus one; an attempt
\* that succeeds after k <= 2 rate-limited ones is the last of its call.
C14_WaitsFollowRetries ==
    /\ SleepCount(30) = RetriedFailures - (IF pc = "backoff" THEN 1 ELSE 0)
    /\ \A p \in 1..4 :
          LET a == PhaseCalls(p)
          IN  \A i \in DOMAIN a :
                /\ a[i].attempt = i - 1
                /\ i < Len(a) => a[i].outcome = "rate_limit"
                /\ a[i].outcome = "ok" => (i = Len(a) /\ i <= 3)
    /\ NoCallUnderWay =>
          SleepCount(30) = Cardinality(DOMAIN calls)
                              - Cardinality({p \in 1..4 : PhaseCalls(p) # <<>>})

C14_Witness ==
    /\ pc = "returned"
    /\ Len(PhaseCalls(1)) = 3 /\ PhaseCalls(1)[3].outcome = "ok"
    /\ Len(PhaseCalls(3)) = 2 /\ PhaseCalls(3)[2].outcome = "ok"
    /\ SleepCount(30) = 3

\* C15: an attempt that fails with anything but a rate-limit error is the
\* last attempt of the run: the error leaves _call_api_with_retry at once,
\* no wait and no delay follows it, and the run is aborted with that error.
C15_OtherErrorsNotRetried ==
    \A i \in DOMAIN calls :
        calls[i].outcome = "error" =>
            /\ i = Len(calls)
            /\ pc = "raised" /\ error = "APIError"
            /\ phase = calls[i].phase
            /\ SleepCount(30) = RetriedFailures
            /\ SleepCount(30) + SleepCount(15) = Len(sleeps)
            /\ SleepCount(15) = Min(calls[i].phase, 3) - 1

C15_Witness ==
    /\ pc = "raised" /\ error = "APIError" /\ phase = 2
    /\ Len(PhaseCalls(2)) = 2
    /\ PhaseCalls(2)[1].outcome = "rate_limit" /\ PhaseCalls(2)[2].outcome = "error"
    /\ sleeps = <<15, 30>>

\* the 30-unit waits of phase p so far, as they appear in sleeps
PhaseWaits(p) ==
    LET retried == Cardinality({i \in DOMAIN calls :
                       calls[i].phase = p /\ calls[i].outcome = "rate_limit"
                       /\ calls[i].attempt < 2})
        pending == IF pc = "backoff" /\ phase = p THEN 1 ELSE 0
    IN  [k \in 1..(retried - pending) |-> 30]

\* the 15-unit delay after analysis phase p, once it has been taken
DelayAfter(p) == IF phase > p THEN <<15>> ELSE <<>>

\* C16: the sleeps of a run are the waits of the company phase, one 15-unit
\* delay, the waits of the competitor phase, one 15-unit delay, and the waits
\* of the customer and of the synthesis phase: a run that reaches the
\* customer phase has taken exactly two delays, each after the success of
\* one phase and before the label of the next, rate-limited or not, and no
\* delay separates the customer phase from the synthesis.
C16_TwoFixedDelays ==
    /\ sleeps = PhaseWaits(1) \o DelayAfter(1) \o PhaseWaits(2) \o DelayAfter(2)
                   \o PhaseWaits(3) \o PhaseWaits(4)
    /\ \A p \in 1..2 :
          /\ Len(labels) > p => phase > p
          /\ phase > p => (Len(PhaseCalls(p)) >= 1
                           /\ PhaseCalls(p)[Len(PhaseCalls(p))].outcome = "ok")
    /\ "customer" \in Range(labels) => SleepCount(15) = 2

C16_Witness ==
    /\ pc = "returned"
    /\ sleeps = <<30, 15, 15, 30, 30>>

(***************************************************************************)
(* The progress callback.  Two executions of run_full_research are fed the *)
(* same outcomes of the four requests: the reference run with a callback   *)
(* that returns, the observed run with the callback given by cb_mode.      *)
(*   cb_script  the outcome of the request of each phase                   *)
(*   cb_runs    per run: position, phase, requests issued, labels the      *)
(*              callback received, result returned                         *)
(***************************************************************************)
CB_MODES == {"absent", "returns", "fails"}

CbRun == [pc |-> "progress", phase |-> 1, requests |-> <<>>, labels |-> <<>>,
          result |-> NO_RESULT]

CbModeOf(r) == IF r = "ref" THEN "returns" ELSE cb_mode

CallbackInit ==
    /\ cb_mode \in CB_MODES
    /\ cb_script \in [1..4 -> {"ok", "fail"}]
    /\ cb_runs = [r \in {"ref", "obs"} |-> CbRun]
    /\ IdleRun /\ IdleExtract /\ IdleNorm /\ IdleCoord /\ IdleDeck /\ IdleMap /\ IdleApp

CallbackFrame ==
    UNCHANGED <<cb_mode, cb_script, runVars, extractVars, normVars, coordVars, deckVars,
                mapVars, appVars>>

\* _progress(label): `if on_progress: on_progress(phase, detail)`; an
\* exception of the callback leaves run_full_research
CbProgress(r) ==
    /\ CallbackFrame
    /\ cb_runs[r].pc = "progress"
    /\ LET me == cb_runs[r]
       IN  cb_runs' = [cb_runs EXCEPT ![r] =
              IF CbModeOf(r) = "fails" THEN [me EXCEPT !.pc = "raised"]
              ELSE [me EXCEPT
                      !.labels = IF CbModeOf(r) = "returns"
                                 THEN Append(@, PHASES[me.phase]) ELSE @,
                      !.pc = IF me.phase = 5 THEN "returned" ELSE "request",
                      !.result = IF me.phase = 5 THEN <<"result", cb_script>> ELSE @]]

\* the request of the phase, with its retries: it returns or it raises
CbRequest(r) ==
    /\ CallbackFrame
    /\ cb_runs[r].pc = "request"
    /\ LET me == cb_runs[r]
       IN  cb_runs' = [cb_runs EXCEPT ![r] =
              IF cb_script[me.phase] = "ok"
              THEN [me EXCEPT !.requests = Append(@, PHASES[me.phase]),
                              !.phase = @ + 1, !.pc = "progress"]
              ELSE [me EXCEPT !.requests = Append(@, PHASES[me.phase]),
                              !.pc = "raised"]]

CallbackNext == \E r \in {"ref", "obs"} : CbProgress(r) \/ CbRequest(r)

SpecCallback == CallbackInit /\ [][CallbackNext]_vars

CbEnded(r) == cb_runs[r].pc \in {"returned", "raised"}

\* C17: whatever the callback is (absent, returning, failing), a run issues
\* the requests and returns the result of the run with a returning callback
\* that receives the same responses.
C17_CallbackHasNoEffect ==
    (CbEnded("ref") /\ CbEnded("obs")) =>
        /\ cb_runs["obs"].requests = cb_runs["ref"].requests
        /\ cb_runs["obs"].result = cb_runs["ref"].result
        /\ cb_runs["obs"].pc = cb_runs["ref"].pc

(***************************************************************************)
(* _parse_json_from_text on texts made of up to MaxSegments segments: free *)
(* text, fenced blocks with and without the JSON tag, bare objects, and    *)
(* malformed or unterminated variants of them.                             *)
(***************************************************************************)
ParseSegments ==
    { <<"txt">>,
      <<"fence_json", "\n", "{", "m_name", "}", "\n", "fence">>,
      <<"fence", "{", "m_findings", "}", "fence">>,
      <<"{", "m_tx", "}">>,
      <<"fence_json", "{", "txt", "}", "fence">>,
      <<"fence_json", "{", "m_direct", "}">>,
      <<"fence", "txt", "fence">>,
      <<"fence", "v_array", "fence">>,
      <<"}">>,
      <<"{">> }

ParseInit ==
    /\ raw_text \in {Concat(segs) : segs \in SeqsUpTo(ParseSegments, MaxSegments)}
    /\ normalized = <<>>
    /\ IdleRun /\ IdleExtract /\ IdleCoord /\ IdleDeck /\ IdleMap /\ IdleApp /\ IdleCallback

SpecParse == ParseInit /\ [][NormNext]_vars

Lowest(S) == CHOOSE i \in S : \A j \in S : i <= j

Highest(S) == CHOOSE i \in S : \A j \in S : i >= j

\* the candidate the priority rule designates in raw_text, <<>> when there
\* is none: the block after the first JSON-tagged fence if a tagged fence
\* exists, else the block after the first fence if a fence exists, else the
\* text from the first opening to the last closing brace
DesignatedCandidate ==
    LET tagged == {i \in DOMAIN raw_text : raw_text[i] = "fence_json"}
        fences == {i \in DOMAIN raw_text : raw_text[i] \in {"fence", "fence_json"}}
        lefts == {i \in DOMAIN raw_text : raw_text[i] = "{"}
        rights == {i \in DOMAIN raw_text : raw_text[i] = "}"}
        open == Lowest(IF tagged # {} THEN tagged ELSE fences)
        closes == {j \in fences : j > open}
    IN  IF fences # {}
        THEN IF closes = {} THEN <<>> ELSE SubSeq(raw_text, open + 1, Lowest(closes) - 1)
        ELSE IF lefts # {} /\ rights # {} /\ Highest(rights) > Lowest(lefts)
        THEN SubSeq(raw_text, Lowest(lefts), Highest(rights))
        ELSE <<>>

\* the members of the candidate when it is a well-formed JSON object
ObjectMembers(cand) ==
    LET toks == SelectSeq(cand, LAMBDA tk : tk # "\n")
    IN  IF Len(toks) >= 2 /\ toks[1] = "{" /\ toks[Len(toks)] = "}"
           /\ \A i \in 2..(Len(toks) - 1) : toks[i] \in MemberTokens
        THEN [object |-> TRUE, members |-> SubSeq(toks, 2, Len(toks) - 1)]
        ELSE [object |-> FALSE, members |-> <<>>]

\* a single complete JSON value that is not an object
IsOtherValue(cand) ==
    LET toks == SelectSeq(cand, LAMBDA tk : tk # "\n")
    IN  Len(toks) = 1 /\ toks[1] \in ValueTokens

\* C18: the parsed data is the object of the JSON-tagged block when a tagged
\* fence exists, else of the first fenced block when a fence exists, else of
\* the text between the first opening and the last closing brace; when
\* there is no candidate or the candidate is not valid JSON the data is the
\* empty mapping.
C18_CandidatePriority ==
    normalized # <<>> =>
        LET cand == DesignatedCandidate
            parsed == ObjectMembers(cand)
        IN  IF parsed.object
            THEN normalized[1].data = JDict(DictOfMembers(parsed.members, <<>>))
            ELSE ~IsOtherValue(cand) => normalized[1].data = EmptyDict

C18_Witness ==
    /\ normalized # <<>>
    /\ raw_text = <<"fence", "{", "m_findings", "}", "fence">>
                     \o <<"fence_json", "\n", "{", "m_name", "}", "\n", "fence">>
                     \o <<"{", "m_tx", "}">>
    /\ normalized[1].data = JDict([name |-> JNum(7)])

\* C19: every Competitor the normalizer builds has position_x and position_y
\* in the closed range 0..10, whatever the coordinates of the model output.
C19_PositionRange ==
    (coord_out # <<>> /\ coord_in.site = "competitor" /\ coord_out[1].exc = "") =>
        /\ coord_out[1].val[1] \in 0..10
        /\ coord_out[1].val[2] \in 0..10

(***************************************************************************)
(* The normalising entry points applied to objects whose list-typed        *)
(* members hold a scalar, null, a mapping or a list.                       *)
(***************************************************************************)
ListMembers ==
    {"m_timeline_scalar", "m_timeline_null", "m_timeline_dict", "m_timeline_list",
     "m_news_scalar", "m_news_null", "m_news_dict", "m_news_list",
     "m_sns_scalar", "m_sns_null", "m_sns_dict", "m_sns_list",
     "m_sns_topics_scalar", "m_sns_topics_null", "m_sns_topics_dict",
     "m_direct_scalar", "m_direct_null", "m_direct_dict", "m_direct",
     "m_indirect_scalar", "m_indirect_null", "m_indirect_dict", "m_indirect_list",
     "m_segments_scalar", "m_segments_null", "m_segments_dict", "m_segments_list",
     "m_cases_scalar", "m_cases_null", "m_cases_dict", "m_cases_list"}

ListInit ==
    /\ raw_text \in {<<"{">> \o ms \o <<"}">> : ms \in SeqsUpTo(ListMembers, MaxMembers)}
    /\ normalized = <<>>
    /\ IdleRun /\ IdleExtract /\ IdleCoord /\ IdleDeck /\ IdleMap /\ IdleApp /\ IdleCallback

SpecLists == ListInit /\ [][NormNext]_vars

PresentNotList(d, key) == key \in DOMAIN d.v /\ d.v[key].t # "list"

\* the list-typed fields of one built object that the source gave a
\* non-list value and that did not come out as the empty list
NotEmptied(d, built, fields) ==
    {f \in fields : PresentNotList(d, f) /\ built.exc = "" /\ built.val[f] # <<>>}

\* the entries of sns_analysis whose key_topics is present, not a list, and
\* did not come out as the empty list
TopicsNotEmptied(d, built) ==
    LET raw == GetList(d, "sns_analysis")
    IN  {i \in DOMAIN raw :
            /\ raw[i].t = "dict" /\ PresentNotList(raw[i], "key_topics")
            /\ built.exc = "" /\ built.val.sns_analysis[i].key_topics # <<>>}

\* C20: for every list-typed target field (timeline, recent_news,
\* sns_analysis, key_topics, direct_competitors, indirect_competitors,
\* target_segments, similar_cases) a source value that is present but not a
\* list (a scalar, null or a mapping) is replaced by the empty list.
C20_NonListBecomesEmpty ==
    (normalized # <<>> /\ normalized[1].data.t = "dict") =>
        LET n == normalized[1]
        IN  /\ NotEmptied(n.data, n.company, {"timeline", "recent_news", "sns_analysis"}) = {}
            /\ TopicsNotEmptied(n.data, n.company) = {}
            /\ NotEmptied(n.data, n.competitor,
                          {"direct_competitors", "indirect_competitors"}) = {}
            /\ NotEmptied(n.data, n.customer, {"target_segments", "similar_cases"}) = {}

(***************************************************************************)
(* Properties of the texts and of the cursor of the deck.                  *)
(***************************************************************************)
\* the texts of a placed block that went through a cut
CutsOf(row) ==
    (IF "cuts" \in DOMAIN row THEN row.cuts ELSE <<>>)
    \o (IF "text" \in DOMAIN row THEN <<row.text>> ELSE <<>>)

\* the kinds of block that hold the texts C21 names
CUT_KINDS ==
    {"news", "industry_position", "case", "question", "table_row", "target", "legend",
     "source"}

\* C21: wherever a text is cut to its budget (news titles and summaries,
\* industry position, similar-case texts, questions, competitor table cells,
\* target segments, legend name, source titles and URLs) the rendered text
\* ends with an ellipsis marker exactly when the text exceeded the budget.
C21_EllipsisWhenCut ==
    \A i \in DOMAIN placed :
        placed[i].kind \in CUT_KINDS =>
            \A k \in DOMAIN CutsOf(placed[i]) :
                LET c == CutsOf(placed[i])[k]
                IN  (c.marker # "") <=> (c.len > c.chars)

\* prs.slide_height, 7.5 inches, in hundredths of an inch
SLIDE_HEIGHT == 750

\* the bottom limit the section of a block tests its cursor against; the
\* height of the slide where the section tests nothing
BottomLimit(kind) ==
    CASE kind \in {"market_size", "market_trend", "target", "cases_heading", "case"} -> MAX_Y
      [] kind = "news" -> 680
      [] kind = "source" -> 650
      [] OTHER -> SLIDE_HEIGHT

\* the kinds of block of the sections that append a variable number of blocks
VARIABLE_KINDS == {"info", "news", "sns", "table_row", "case", "question", "source"}

\* C22: in every section that appends a variable number of blocks (company
\* info rows, news items, SNS entries, competitor table rows, similar cases,
\* questions, appendix sources) no block is placed beyond the bottom limit
\* of its slide, for any number of items.
C22_NoBlockBeyondLimit ==
    \A i \in DOMAIN placed :
        placed[i].kind \in VARIABLE_KINDS => placed[i].y <= BottomLimit(placed[i].kind)

(***************************************************************************)
(* _create_positioning_map on longer lists of close points.                *)
(***************************************************************************)
OffsetPoints == {<<1, 50>>, <<1, 53>>, <<1, 56>>, <<9, 50>>}

OffsetInit ==
    /\ map_in \in UNION {[1..k -> OffsetPoints] : k \in 1..MaxLabels}
    /\ map_out = <<>>
    /\ IdleRun /\ IdleExtract /\ IdleNorm /\ IdleCoord /\ IdleDeck
    /\ IdleApp /\ IdleCallback

SpecOffsets == OffsetInit /\ [][MapNext]_vars

\* the fixed order in which the offsets are tried
CANDIDATE_ORDER == <<<<8, 8>>, <<-8, 8>>, <<8, -12>>, <<-8, -12>>, <<12, 0>>, <<-12, 0>>>>

\* the label position recorded for the k-th point, in tenths
LabelAt(k) == <<map_in[k][1] + map_out[k][1], map_in[k][2] + map_out[k][2]>>

\* the label position the j-th candidate offset gives the k-th point
CandidateAt(k, j) ==
    <<map_in[k][1] + CANDIDATE_ORDER[j][1], map_in[k][2] + CANDIDATE_ORDER[j][2]>>

\* the j-th candidate of the k-th point is within the tolerance rectangle
\* (|dx| < 0.8 and |dy| < 0.6) of an earlier label
Blocked(k, j) ==
    \E l \in 1..(k - 1) :
        /\ Abs(CandidateAt(k, j)[1] - LabelAt(l)[1]) < 8
        /\ Abs(CandidateAt(k, j)[2] - LabelAt(l)[2]) < 6

\* the j-th candidate of the k-th point is beyond the edge of the tolerance
\* rectangle of every earlier label
Clear(k, j) ==
    \A l \in 1..(k - 1) :
        \/ Abs(CandidateAt(k, j)[1] - LabelAt(l)[1]) > 8
        \/ Abs(CandidateAt(k, j)[2] - LabelAt(l)[2]) > 6

\* the index in the fixed order of the offset the k-th point received
OffsetIndex(k) == CHOOSE j \in DOMAIN CANDIDATE_ORDER : CANDIDATE_ORDER[j] = map_out[k]

EventRows == SelectSeq(placed, LAMBDA row : row.kind = "event")

\* C24: the timeline shown in the deck holds at most 8 events, in input
\* order, with labels alternating above the axis (even index) and below it
\* (odd index), and no event whose year does not begin with a parseable
\* integer.
C24_TimelineEvents ==
    "timeline" \in DOMAIN deck_in =>
        /\ Len(EventRows) <= 8
        /\ \A i \in DOMAIN EventRows :
              /\ EventRows[i].num = i
              /\ EventRows[i].y = IF (i - 1) % 2 = 0 THEN 100 ELSE 260
              /\ EventRows[i].year_ok

(***************************************************************************)
(* Properties of the position of the analysed company.                     *)
(***************************************************************************)
\* the position a competitor answer gives the analysed company: the object
\* of RunTexts has x = 6 and an unparseable y, the other texts no object
ExpectedTarget(text) == <<IF "m_tx" \in Range(text) THEN 6 ELSE 5, 5>>

\* C25: in every successful run the position of the analysed company that
\* the positioning map uses is the (x, y) parsed from the competitor answer,
\* each coordinate 5 when absent or unparseable, and (5, 5) when the answer
\* held no JSON object; the position the result carries is at every moment
\* the one the competitor phase produced.
C25_TargetPositionKept ==
    /\ result # NO_RESULT =>
          TargetPosition(result.competitor) = TargetPosition(competitor_info)
    /\ pc = "returned" =>
          \A i \in DOMAIN calls :
              (calls[i].phase = 2 /\ calls[i].outcome = "ok") =>
                  TargetPosition(result.competitor) = ExpectedTarget(calls[i].text)

C25_Witness ==
    /\ pc = "returned"
    /\ result.competitor.target_position = <<6, 5>>
    /\ \E i \in DOMAIN calls : calls[i].phase = 3 /\ calls[i].outcome = "rate_limit"

(***************************************************************************)
(* Termination of the run.  Every step of run_full_research is taken once  *)
(* it is enabled: a request attempt returns or fails, a sleep ends.         *)
(***************************************************************************)
\* the answers of the runs checked for termination: one source, and a text
\* that holds no JSON (the phase returns its defaults) or whose fenced block
\* is an array (the answer a phase cannot read as a mapping)
LiveResponses ==
    { Response(<<OtherBlock("server_tool_use"),
                 SearchBlock("list", <<Entry("web_search_result", "u1", "t1")>>),
                 TextBlock(txt, <<>>)>>) :
          txt \in {<<"txt">>, <<"fence_json", "v_array", "fence">>} }

\* func() returns: the wrapped request succeeded
RequestOkLive ==
    /\ RunFrame
    /\ pc = "request"
    /\ \E response \in LiveResponses :
          IF phase = 4 THEN SynthesisPhase(response) ELSE AnalysisPhase(response)
    /\ UNCHANGED <<attempt, labels, sleeps>>

LiveNext ==
    \/ CreateClient
    \/ Progress
    \/ RequestOkLive
    \/ RequestRateLimited
    \/ RequestError
    \/ Backoff
    \/ Pause

SpecLive == Init /\ [][LiveNext]_vars /\ WF_vars(LiveNext)

Terminated == pc \in {"returned", "raised"}

\* C26: every run terminates, by returning a result after the label done or
\* by raising; each of the four phases makes at most 3 request attempts, a
\* run at most 12 in all, and a returned run between 4 and 12.
C26_RunTerminates ==
    /\ [](/\ \A p \in 1..4 : Len(PhaseCalls(p)) <= 3
          /\ Len(calls) <= 12
          /\ pc = "returned" =>
                /\ Len(calls) >= 4
                /\ result # NO_RESULT
                /\ labels # <<>> /\ labels[Len(labels)] = "done"
          /\ pc = "raised" => error # "")
    /\ <>Terminated

C26_Witness ==
    /\ pc = "returned"
    /\ Len(calls) = 12
    /\ \A p \in 1..4 : Len(PhaseCalls(p)) = 3

(***************************************************************************)
(* The customer section never continues on a second slide.                 *)
(***************************************************************************)
CustomerBuilt == "similar_cases" \in DOMAIN deck_in

RowsOfKind(kind) == SelectSeq(placed, LAMBDA row : row.kind = kind)

\* the cases that fit under a heading at cursor y: 0.4 for the heading, 1.2
\* for each case, the bottom of a case at most 6.5
CasesThatFit(y, n) == Cardinality({i \in 1..n : y + 40 + i * 120 <= 650})

\* C27: for every CustomerInfo the customer section emits exactly one
\* slide: the target-segment block starts at a cursor of at most 3.6 and
\* the similar-cases heading at a cursor of at most 4.9 (so cursor + 1.0
\* never exceeds 6.5), at most 3 similar cases are rendered, all of them on
\* that one slide, and a case that would pass 6.5 is left out.
C27_CustomerOneSlide ==
    CustomerBuilt =>
        /\ SlideCount("customer") = 1
        /\ \A i \in DOMAIN placed : placed[i].slide = Len(slides)
        /\ \A i \in DOMAIN placed :
              /\ placed[i].kind = "target" => placed[i].y <= 360
              /\ placed[i].kind = "cases_heading" => placed[i].y <= 490
        /\ Len(RowsOfKind("cases_heading")) = (IF deck_in.similar_cases > 0 THEN 1 ELSE 0)
        /\ Len(RowsOfKind("case")) <= 3
        /\ \A i \in DOMAIN placed :
              placed[i].kind = "cases_heading" =>
                  Len(RowsOfKind("case"))
                      = CasesThatFit(placed[i].y, Min(deck_in.similar_cases, 3))

\* three similar cases under a full slide: the heading sits at 4.9, one case
\* is drawn and two are left out, on the section's only slide
C27_Witness ==
    /\ CustomerBuilt
    /\ deck_in.similar_cases >= 3
    /\ deck_in.market_size > 0 /\ deck_in.market_trend > 0
    /\ deck_in.target_description > 0
    /\ SlideCount("customer") = 1
    /\ \E i \in DOMAIN placed : placed[i].kind = "cases_heading" /\ placed[i].y = 490
    /\ Len(RowsOfKind("case")) = 1

(***************************************************************************)
(* No fallback from the fence rules to the brace rule.                     *)
(***************************************************************************)
\* the text from the first opening to the last closing brace of raw_text is
\* a well-formed JSON object
BracesHoldObject ==
    LET lefts == {i \in DOMAIN raw_text : raw_text[i] = "{"}
        rights == {i \in DOMAIN raw_text : raw_text[i] = "}"}
    IN  /\ lefts # {} /\ rights # {}
        /\ Highest(rights) > Lowest(lefts)
        /\ ObjectMembers(SubSeq(raw_text, Lowest(lefts), Highest(rights))).object

\* the fence rule applies to raw_text and gives nothing: the opening fence
\* is never closed, or the block it opens is not valid JSON
FenceRuleFails ==
    LET tagged == {i \in DOMAIN raw_text : raw_text[i] = "fence_json"}
        fences == {i \in DOMAIN raw_text : raw_text[i] \in {"fence", "fence_json"}}
    IN  /\ fences # {}
        /\ LET open == Lowest(IF tagged # {} THEN tagged ELSE fences)
               closes == {j \in fences : j > open}
           IN  \/ closes = {}
               \/ LET block == SubSeq(raw_text, open + 1, Lowest(closes) - 1)
                  IN  ~ObjectMembers(block).object /\ ~IsOtherValue(block)

\* C28: once the text contains a fence marker the brace rule is not tried:
\* a text whose fence is unterminated or whose fenced block does not parse
\* yields the empty mapping, also when the text from its first opening to
\* its last closing brace is a valid JSON object.
C28_NoFallback ==
    (normalized # <<>> /\ FenceRuleFails) => normalized[1].data = EmptyDict

\* an unterminated tagged fence in front of a valid object: the data is empty
C28_Witness ==
    /\ normalized # <<>>
    /\ raw_text = <<"txt", "fence_json", "{", "m_direct", "}">>
    /\ FenceRuleFails /\ BracesHoldObject
    /\ normalized[1].data = EmptyDict

(***************************************************************************)
(* The stakeholder-perspective slide.                                      *)
(***************************************************************************)
PerspectiveBuilt == "needs" \in DOMAIN deck_in

\* C29: the perspective slide is emitted exactly when one of the executive,
\* frontline or customer needs is non-empty; concerns or opportunities alone
\* do not produce it, and when it is produced it is one slide that carries
\* all nine values.
C29_PerspectiveSlide ==
    PerspectiveBuilt =>
        LET some_needs == \E who \in DOMAIN deck_in.needs : deck_in.needs[who] > 0
        IN  /\ SlideCount("perspective") = (IF some_needs THEN 1 ELSE 0)
            /\ ~some_needs => placed = <<>>
            /\ some_needs =>
                  /\ slides[Len(slides)].section = "perspective"
                  /\ Len(placed) = 9
                  /\ \A k \in 1..9 : /\ placed[k].kind = "perspective"
                                     /\ placed[k].num = k
                                     /\ placed[k].slide = Len(slides)

\* only the customer's needs are filled in, concerns and opportunities are
\* empty: one slide with nine values
C29_Witness ==
    /\ PerspectiveBuilt
    /\ deck_in.needs = [executive |-> 0, frontline |-> 0, customer |-> 250]
    /\ deck_in.concerns = 0
    /\ SlideCount("perspective") = 1
    /\ Len(placed) = 9

(***************************************************************************)
(* The appendix: the list of sources.                                      *)
(***************************************************************************)
AppendixBuilt == "header_count" \in DOMAIN deck_in

\* C30: the appendix emits at least one slide, also without sources, and at
\* most two; it lists the first 20 sources only, numbered continuously over
\* the continuation slide, while its header reports the number of all
\* sources of the result; the continuation slide is started only once the
\* cursor has passed 6.5.
C30_Appendix ==
    AppendixBuilt =>
        /\ SlideCount("appendix") \in {1, 2}
        /\ deck_in.sources = 0 => (placed = <<>> /\ SlideCount("appendix") = 1)
        /\ Len(placed) = Min(deck_in.sources, 20)
        /\ deck_in.header_count = deck_in.sources
        /\ \A i \in DOMAIN placed :
              /\ placed[i].kind = "source"
              /\ placed[i].num = i
              /\ slides[placed[i].slide].section = "appendix"
        /\ \A i \in DOMAIN placed :
              IF i = 1 THEN slides[placed[i].slide].page = 1
              ELSE IF placed[i].slide = placed[i - 1].slide
              THEN placed[i].y = placed[i - 1].y + 40
              ELSE /\ placed[i].slide = placed[i - 1].slide + 1
                   /\ CursorExceeds(130, i - 1, 650)
                   /\ placed[i].y = 100

\* more than 20 sources: 20 are listed, the 14th opens the continuation
\* slide, and the header reports them all
C30_Witness ==
    /\ AppendixBuilt
    /\ deck_in.sources > 20
    /\ deck_in.header_count = deck_in.sources
    /\ Len(placed) = 20
    /\ SlideCount("appendix") = 2
    /\ placed[13].slide + 1 = placed[14].slide
    /\ placed[13].y = 610 /\ placed[14].y = 100
    /\ placed[20].num = 20

====
